---- MODULE Spec2Model ----
(***************************************************************************)
(* The serial terminal prototypes of com_terminal as one state machine.    *)
(* Each behaviour runs ONE binary, chosen in Init by `app`:                *)
(*   "main"        src/src/main.rs            (Terminal)                   *)
(*   "com_term"    src/src/bin/com_term.rs    (ComTerminal, port thread)   *)
(*   "claude_com2" src/src/bin/claude_com2.rs (ComTerminal, Tick polling)  *)
(*   "claude_com4" src/src/bin/claude_com4.rs (ComTerminal, duplex stream) *)
(*   "claude_com"  src/src/bin/claude_com.rs  (ComTerminal, read tasks)    *)
(*   "com_gpt"     src/src/bin/com_gpt.rs     (SerialApp)                  *)
(*   "com_gemini"  src/src/bin/com_gemini.rs  (ComApp)                     *)
(*   "main_copy"   src/src/main copy.rs       (ComApp, reader thread)      *)
(* The serial device and the OS are the environment: every open, read and  *)
(* write draws its outcome nondeterministically.  History variables record *)
(* what an observer on the handle and on the UI sees.  A widget's message  *)
(* is produced only in a state whose view offers the widget.  The buttons  *)
(* that switch windows, start monitoring, clear, save or copy the log and  *)
(* load files, and the pick lists of line settings (but for com_gemini's   *)
(* baud rate), are left out.                                               *)
(***************************************************************************)
EXTENDS Integers, Sequences, FiniteSets, Bags, TLC

\* ------------------------------------------------------------------ bounds
MaxSessions == 2   \* successful opens per behaviour
MaxIo       == 2   \* I/O calls per behaviour that return data or fail
MaxOps      == 5   \* user messages handled per behaviour
MaxHexLen   == 3   \* characters of a string given to hex_to_bytes
MaxHexBytes == 2   \* bytes of a sequence given to bytes_to_hex
MaxLogOps   == 50  \* user messages handled per behaviour that only refreshes ports
ErrReasonLen == 1  \* UTF-8 length of the OS error text `e` in formatted lines

\* ------------------------------------------------------------- value sets
Apps == {"main", "main_copy", "com_term", "claude_com2", "claude_com4", "claude_com",
         "com_gpt", "com_gemini"}

NoPort == "none"                  \* Option::None of a port name
PortNames == {"COM1"}

\* text the user can type: "", "a", "b" (code points)
Inputs == {<<>>, <<97>>, <<98>>}
\* what one read can return: "a" followed by the byte 0xFF, which is not UTF-8
Chunks == {<<97, 255>>}
\* com_gemini decodes strictly, so its reads may also return the valid "b"
GemChunks == Chunks \cup {<<98>>}
\* the entries of BAUD_RATES (com_gemini) and of baud_rates (claude_com2) the
\* pick list is tried with
BaudRates == {9600, 57600}

\* ----------------------------------------------------- strings and bytes
RECURSIVE Flatten(_)
Flatten(ss) == IF ss = <<>> THEN <<>> ELSE Head(ss) \o Flatten(Tail(ss))

\* String::from_utf8_lossy on the model's bytes: ASCII is kept, a byte that
\* cannot start or continue a sequence (0xFF) becomes U+FFFD.
from_utf8_lossy(bytes) ==
    [i \in 1..Len(bytes) |-> IF bytes[i] < 128 THEN bytes[i] ELSE 65533]

\* UTF-8 encoding of one code point of the model's strings
EncodeChar(c) == IF c < 128 THEN <<c>> ELSE <<239, 191, 189>>

\* str::as_bytes / String::into_bytes
as_bytes(s) == Flatten([i \in 1..Len(s) |-> EncodeChar(s[i])])

\* str::len: the length in bytes
str_len(s) == Len(as_bytes(s))

\* format!("{:02X}", b): the two upper-case hex digits of a byte
HexDigit(n) == IF n < 10 THEN 48 + n ELSE 55 + n
Hex2(b) == <<HexDigit(b \div 16), HexDigit(b % 16)>>

\* hex_utils::bytes_to_hex: the bytes' hex pairs joined by one space
RECURSIVE bytes_to_hex(_)
bytes_to_hex(bytes) ==
    IF bytes = <<>> THEN <<>>
    ELSE IF Len(bytes) = 1 THEN Hex2(bytes[1])
    ELSE Hex2(bytes[1]) \o <<32>> \o bytes_to_hex(Tail(bytes))

\* char::to_digit(16): the value of a hex digit, or -1
HexVal(c) ==
    IF c \in 48..57 THEN c - 48
    ELSE IF c \in 65..70 THEN c - 55
    ELSE IF c \in 97..102 THEN c - 87
    ELSE -1

\* u8::from_str_radix(p, 16) on a two-character ASCII slice p: a leading
\* '+' is a sign and not a digit (a '-' is an invalid digit for u8); the
\* result is the value, or -1 for Err(ParseIntError)
from_str_radix(p) ==
    IF p[1] = 43
    THEN HexVal(p[2])
    ELSE IF HexVal(p[1]) >= 0 /\ HexVal(p[2]) >= 0
         THEN 16 * HexVal(p[1]) + HexVal(p[2])
         ELSE -1

\* hex_utils::hex_to_bytes: whitespace is removed, an odd byte length is an
\* error, then every two bytes of the cleaned string are sliced and parsed,
\* left to right, stopping at the first Err.  The slice &cleaned[i..i + 2]
\* panics when i or i + 2 is inside a multi-byte character.
hex_to_bytes(s) ==
    LET cleaned == SelectSeq(s, LAMBDA c : c \notin {9, 10, 11, 12, 13, 32})
        RECURSIVE pairs(_)
        pairs(cs) ==
            IF cs = <<>> THEN [r |-> "ok", bytes |-> <<>>]
            ELSE IF cs[1] >= 128 \/ cs[2] >= 128 THEN [r |-> "panic", bytes |-> <<>>]
            ELSE IF from_str_radix(SubSeq(cs, 1, 2)) < 0 THEN [r |-> "err", bytes |-> <<>>]
            ELSE LET rest == pairs(SubSeq(cs, 3, Len(cs)))
                 IN  IF rest.r = "ok"
                     THEN [r |-> "ok",
                           bytes |-> <<from_str_radix(SubSeq(cs, 1, 2))>> \o rest.bytes]
                     ELSE rest
    IN  IF str_len(cleaned) % 2 # 0
        THEN [r |-> "err", bytes |-> <<>>]
        ELSE pairs(cleaned)

\* no call of hex_to_bytes yet
NotCalled == [r |-> "none", bytes |-> <<>>]

\* the strings hex_to_bytes is tried with: every string of up to MaxHexLen of
\* the characters '4', 'f', 'G', '+', ' ' and U+FFFD, and the output of
\* bytes_to_hex for every sequence of up to MaxHexBytes of four bytes
HexInputs ==
    UNION {[1..n -> {52, 102, 71, 43, 32, 65533}] : n \in 0..MaxHexLen}
    \cup {bytes_to_hex(b) : b \in UNION {[1..n -> {0, 10, 171, 255}] : n \in 0..MaxHexBytes}}

\* A displayed or transported String: a fixed literal (named by `tag`)
\* around a variable part `s` (code points) and, where the source formats
\* one in, a port name.
Txt(tag, s, port) == [tag |-> tag, s |-> s, port |-> port]
Lit(tag) == Txt(tag, <<>>, NoPort)
Raw(s) == Txt("raw", s, NoPort)

\* UTF-8 length of the literals of com_term.rs that travel as DataReceived
LenThreadStarted == 47
LenWriteError    == 33
LenWriteOk       == 37
LenWriteClosed   == 42
LenGotBytes      == 31
LenReadError     == 33
LenThreadEnded   == 47

LitLen(tag) ==
    CASE tag = "raw"            -> 0
      [] tag = "thread_started" -> LenThreadStarted
      [] tag = "write_error"    -> LenWriteError + ErrReasonLen
      [] tag = "write_ok"       -> LenWriteOk
      [] tag = "write_closed"   -> LenWriteClosed
      [] tag = "got_bytes"      -> LenGotBytes + 1
      [] tag = "read_error"     -> LenReadError + ErrReasonLen
      [] tag = "thread_ended"   -> LenThreadEnded
      [] OTHER                  -> 0

\* String::len of a Txt
txt_len(t) == LitLen(t.tag) + str_len(t.s)

\* --------------------------------------------------------------- the OS
\* serialport::available_ports(): an error, or the list of port names
EnumErr == <<"enum_error">>
PortLists == {<<>>, <<"COM1">>}
EnumResults == PortLists \cup {EnumErr}

SeqToSet(s) == {s[i] : i \in 1..Len(s)}

\* One read call on an open handle: n > 0 bytes, Ok(0), ErrorKind::TimedOut,
\* or any other io::Error.
ReadOutcomes ==
    {[r |-> "data", bytes |-> c] : c \in Chunks}
    \cup {[r |-> x, bytes |-> <<>>] : x \in {"zero", "timeout", "error"}}

GemReadOutcomes ==
    ReadOutcomes \cup {[r |-> "data", bytes |-> c] : c \in GemChunks}

\* One write_all call: every byte accepted, or an io::Error.
WriteOutcomes == {"ok", "error"}

\* One open call.
OpenOutcomes == {"ok", "error"}

VARIABLES
    app,              \* the binary this behaviour runs
    os_ports,         \* what serialport::available_ports() returns on this machine
    ops,              \* user messages handled so far
    budget,           \* user messages this behaviour is followed for
    next_handle,      \* sessions so far (handles opened; com_gemini: connects);
                      \* their ids are 1..next_handle
    \* history, as seen on the handle and by the UI
    wire,             \* byte sequences the device received, one per write_all
    submitted,        \* send requests accepted while connected, in issue order
    readlog,          \* chunks returned by read calls, in call order
    delivered,        \* the data and error events update() handled, in handling order
    read_failed,      \* handles on which a read failed with a non-timeout error
    write_failed,     \* handles on which a write_all failed
    late_io,          \* {"read","write"}: an attempt made on a handle after its failure
    errs,             \* I/O calls so far whose Err the program reacted to or dropped
    \* struct ComTerminal (com_term, claude_com, claude_com2, claude_com4)
    input_text,
    terminal_output,  \* the lines displayed, as a bag: no property reads their order
    connected,        \* port_settings.connected
    port_name,        \* port_settings.port_name
    available_ports,
    received_bytes,
    sent_bytes,
    serial_port,      \* Option<Arc<Mutex<port>>>: 0 is None
    \* com_term only
    rx, tx, write_tx, \* Option<channel end>: 0 is None, h the channel of session h
    sub_rx,           \* the receiver the running ComReceiver stream holds (0: not started)
    chan,             \* chan[h]: messages queued from port thread h to the UI
    write_q,          \* write_q[h]: strings queued on the write channel of thread h
    thread,           \* thread[h]: where the background context of session h is
    \* claude_com4, main, com_gpt, claude_com
    tasks,            \* the Task::perform futures that have not completed yet
    inbox,            \* messages the runtime has queued for update(), oldest first
    writer_sender,    \* claude_com4: Option<mpsc::Sender>: 0 is None, h the stream of session h
    baud_rate,        \* port_settings.baud_rate / baud_rate
    \* com_gemini
    buffer,           \* the received text displayed
    errors,           \* Vec<String>: the errors reported to update()
    \* claude_com
    panicked,         \* subscription() reached todo!()
    \* com_gpt
    hex_mode,         \* AppState::hex_mode
    \* com_gemini
    data_points,      \* Vec<(f64, f64)>: the points of the plot
    data_counter,     \* the x coordinate of the next point
    \* hex_utils
    hex_out           \* what the last call of hex_to_bytes on the input returned

ioVars == <<wire, submitted, readlog, read_failed, write_failed, late_io, errs>>
ghostVars == <<ioVars, delivered>>
ctVars == <<input_text, terminal_output, connected, port_name, available_ports,
            received_bytes, sent_bytes, serial_port>>
chEnds == <<rx, tx, write_tx, sub_rx>>
termVars == <<chEnds, chan, write_q, thread>>
xVars == <<tasks, inbox, writer_sender, baud_rate>>
env == <<app, os_ports, budget>>
gmVars == <<buffer, errors, panicked, hex_mode, data_points, data_counter, hex_out>>
vars == <<env, gmVars, ops, next_handle, ghostVars, ctVars, termVars, xVars>>

Handles == 1..MaxSessions


\* One line of a display log: which push wrote it, and its text.
Line(k, t) == [k |-> k, t |-> t]
StatusLine(tag) == Line(tag, Lit(tag))
PortLine(tag, port) == Line(tag, Txt(tag, <<>>, port))

\* Vec::push / VecDeque::push_back / String::push_str on a display log
Push(log, line) == log (+) SetToBag({line})
PushAll(log, lines) == log (+) SetToBag(lines)

\* A Message travelling to update(): its variant and its String; and, for the
\* observer, the session that sent it, the outcome of the I/O call that caused
\* it ("data", "timeout", "error" for a read, "write_error" for a write, "none"
\* when no call did) and, for data, the read's position in readlog.
Msg(variant, t, h, cause, rd) == [m |-> variant, t |-> t, h |-> h, cause |-> cause, rd |-> rd]

\* A pending Task::perform future: what it does, the bytes it carries and the
\* channel or handle it was given.  The pending futures form a bag: the
\* executor completes them in any order.
Task(kind, data, to) == [kind |-> kind, data |-> data, to |-> to]
Spawn(ts, t) == ts (+) SetToBag({t})
Complete(ts, t) == ts (-) SetToBag({t})
\* Task::perform(get_available_ports(), Message::PortsUpdated) issued by new()
PortsTask == Task("ports", <<>>, 0)

\* the observer's record keeps the events an I/O call caused
Record(d, msg) == IF msg.cause = "none" THEN d ELSE Append(d, msg)

\* the baud rate each binary starts with
BAUD_DEFAULT == 9600
Baud115200 == 115200
DefaultBaud(a) ==
    IF a \in {"claude_com2", "claude_com", "com_gemini"} THEN BAUD_DEFAULT ELSE Baud115200

\* available_ports().map(..).unwrap_or_default(): an error reads as no ports
OkPorts == IF os_ports = EnumErr THEN <<>> ELSE os_ports

\* the initial value of everything no binary has touched yet
InitHistory ==
    /\ next_handle = 0 /\ ops = 0
    /\ wire = <<>> /\ submitted = <<>> /\ readlog = <<>> /\ delivered = <<>>
    /\ read_failed = {} /\ write_failed = {} /\ late_io = {} /\ errs = 0

\* ComTerminal::new of com_term.rs
TermNewLog(ports) ==
    SetToBag({StatusLine("banner"), StatusLine("loading"),
              IF ports = EnumErr THEN StatusLine("ports_error")
              ELSE IF ports = <<>> THEN StatusLine("ports_none")
              ELSE StatusLine("ports_found")})

InitComTerminal ==
    /\ input_text = <<>>
    /\ connected = FALSE
    /\ port_name = NoPort
    /\ received_bytes = 0 /\ sent_bytes = 0
    /\ serial_port = 0
    /\ available_ports = OkPorts
    /\ terminal_output = TermNewLog(os_ports)

InitTerm ==
    /\ rx = 0 /\ tx = 0 /\ write_tx = 0 /\ sub_rx = 0
    /\ chan = [h \in Handles |-> <<>>]
    /\ write_q = [h \in Handles |-> <<>>]
    /\ thread = [h \in Handles |-> "none"]

\* ComTerminal::new of claude_com4.rs: the port list arrives later, by a Task
InitCom4 ==
    /\ input_text = <<>>
    /\ connected = FALSE
    /\ port_name = NoPort
    /\ received_bytes = 0 /\ sent_bytes = 0
    /\ serial_port = 0
    /\ available_ports = <<>>
    /\ terminal_output = SetToBag({StatusLine("banner"), StatusLine("loading")})

\* AppState::default of com_gpt.rs: nothing selected, empty terminal
InitGpt ==
    /\ input_text = <<>>
    /\ connected = FALSE
    /\ port_name = NoPort
    /\ received_bytes = 0 /\ sent_bytes = 0
    /\ serial_port = 0
    /\ available_ports = <<>>
    /\ terminal_output = EmptyBag

\* Terminal::new of main.rs; find_ports() is started as a Command
InitMain ==
    /\ input_text = <<>>
    /\ connected = FALSE
    /\ port_name = NoPort
    /\ received_bytes = 0 /\ sent_bytes = 0
    /\ serial_port = 0
    /\ available_ports = <<>>
    /\ terminal_output = SetToBag({StatusLine("waiting")})

\* ComApp::new of com_gemini.rs; list_serial_ports() is started as a Command
InitGem ==
    /\ input_text = <<>>
    /\ connected = FALSE
    /\ port_name = NoPort
    /\ received_bytes = 0 /\ sent_bytes = 0
    /\ serial_port = 0
    /\ available_ports = <<>>
    /\ terminal_output = EmptyBag

\* ComTerminal::new of claude_com.rs
InitCom ==
    /\ input_text = <<>>
    /\ connected = FALSE
    /\ port_name = NoPort
    /\ received_bytes = 0 /\ sent_bytes = 0
    /\ serial_port = 0
    /\ available_ports = <<>>
    /\ terminal_output = SetToBag({StatusLine("banner"), StatusLine("loading")})

\* ComApp::new of "main copy.rs": the ports are listed in new(), an error
\* becoming the empty list, and the first one is the port name
InitCopy ==
    /\ input_text = <<>>
    /\ connected = FALSE
    /\ port_name = IF OkPorts = <<>> THEN NoPort ELSE Head(OkPorts)
    /\ received_bytes = 0 /\ sent_bytes = 0
    /\ serial_port = 0
    /\ available_ports = OkPorts
    /\ terminal_output = EmptyBag

Init ==
    /\ app \in Apps
    /\ budget = MaxOps
    /\ buffer = <<>> /\ errors = <<>> /\ panicked = FALSE /\ hex_mode = FALSE
    /\ data_points = <<>> /\ data_counter = 0 /\ hex_out = NotCalled
    /\ os_ports \in EnumResults
    /\ InitHistory
    /\ InitTerm
    /\ writer_sender = 0 /\ inbox = <<>>
    /\ baud_rate = DefaultBaud(app)
    /\ CASE app \in {"com_term", "claude_com2"} -> InitComTerminal /\ tasks = EmptyBag
         [] app = "claude_com4" -> InitCom4 /\ tasks = SetToBag({PortsTask})
         [] app = "com_gpt" -> InitGpt /\ tasks = EmptyBag
         [] app = "main" -> InitMain /\ tasks = SetToBag({PortsTask})
         [] app = "com_gemini" -> InitGem /\ tasks = SetToBag({PortsTask})
         [] app = "claude_com" -> InitCom /\ tasks = SetToBag({PortsTask})
         [] app = "main_copy" -> InitCopy /\ tasks = EmptyBag

\* The handles something still holds: the stored one, the one a live
\* background context owns, one a pending task or queued message carries.
LiveHandles ==
    {h \in Handles :
        \/ h = serial_port
        \/ thread[h] \in {"start", "loop", "yield"}
        \/ \E t \in BagToSet(tasks) : t.to = h /\ t.kind \in {"write", "read", "rx_loop"}
        \/ \E i \in DOMAIN inbox :
              inbox[i].m \in {"PortOpened", "PortConnected"} /\ inbox[i].h = h}

\* a serial port is opened for exclusive access: open() fails while it is open
CanOpen(o) == o = "ok" => (LiveHandles = {} /\ next_handle < MaxSessions)

\* a serial adapter is plugged in or pulled out, or enumeration starts or
\* stops failing: what available_ports() returns from now on changes
Os_PortsChange(ports) ==
    /\ ports # os_ports
    /\ os_ports' = ports
    /\ UNCHANGED <<app, budget, gmVars, ops, next_handle, ghostVars, ctVars, termVars, xVars>>

\* one more widget or timer message is handled
UserOp == ops < budget /\ ops' = ops + 1

\* the environment may still let n I/O calls return data or fail
IoFits(n) == Len(readlog) + errs + n <= MaxIo
IoLeft == IoFits(1)

\* ======================================================= com_term.rs
\* Message::InputChanged
Term_InputChanged(text) ==
    /\ app = "com_term" /\ UserOp
    /\ input_text' = text
    /\ UNCHANGED <<env, gmVars, xVars, next_handle, ghostVars, terminal_output, connected, port_name,
                   available_ports, received_bytes, sent_bytes, serial_port, termVars>>

\* Message::PortSelected, from the pick list over available_ports
Term_PortSelected(port) ==
    /\ app = "com_term" /\ UserOp
    /\ port \in SeqToSet(available_ports)
    /\ port_name' = port
    /\ UNCHANGED <<env, gmVars, xVars, next_handle, ghostVars, input_text, terminal_output, connected,
                   available_ports, received_bytes, sent_bytes, serial_port, termVars>>

\* Message::SendData.  self.serial_port is the only path to the device in this
\* handler; the write channel (write_tx) is not used by it.
Term_SendData(o) ==
    /\ app = "com_term" /\ UserOp
    /\ IF input_text # <<>> /\ connected
       THEN /\ submitted' = Append(submitted, as_bytes(input_text))
            /\ sent_bytes' = sent_bytes + str_len(input_text)
            /\ IF serial_port # 0
               THEN /\ late_io' = IF serial_port \in write_failed
                                  THEN late_io \cup {"write"} ELSE late_io
                    /\ IF o = "ok"
                       THEN /\ wire' = Append(wire, as_bytes(input_text))
                            /\ UNCHANGED <<write_failed, errs, delivered>>
                            /\ terminal_output' = PushAll(terminal_output,
                                 {Line("sent_echo", Raw(input_text)), StatusLine("write_ok")})
                       ELSE /\ IoLeft
                            /\ write_failed' = write_failed \cup {serial_port}
                            /\ errs' = errs + 1
                            /\ wire' = wire
                            /\ delivered' = Append(delivered,
                                 Msg("SendData", Lit("write_error"), serial_port,
                                     "write_error", 0))
                            /\ terminal_output' = PushAll(terminal_output,
                                 {Line("sent_echo", Raw(input_text)), StatusLine("write_error")})
               ELSE /\ terminal_output' =
                         Push(terminal_output, Line("sent_echo", Raw(input_text)))
                    /\ UNCHANGED <<wire, write_failed, late_io, errs, delivered>>
            /\ input_text' = <<>>
            /\ UNCHANGED <<readlog, read_failed>>
       ELSE UNCHANGED <<ghostVars, input_text, terminal_output, sent_bytes>>
    /\ UNCHANGED <<env, gmVars, xVars, next_handle, connected, port_name, available_ports,
                   received_bytes, serial_port, termVars>>

\* Message::ConnectPort: open, then hand the port to a new thread
Term_ConnectPort(o) ==
    /\ app = "com_term" /\ UserOp
    /\ ~connected                          \* the view offers Connect
    /\ CanOpen(o)
    /\ IF port_name # NoPort
       THEN IF o = "ok"
            THEN /\ next_handle' = next_handle + 1
                 /\ connected' = TRUE
                 /\ tx' = next_handle' /\ rx' = next_handle'
                 /\ write_tx' = next_handle'
                 /\ sub_rx' = IF sub_rx = 0 THEN next_handle' ELSE sub_rx
                 /\ thread' = [thread EXCEPT ![next_handle'] = "start"]
                 /\ terminal_output' =
                        Push(terminal_output, PortLine("connected_to", port_name))
                 /\ UNCHANGED <<chan, write_q>>
            ELSE /\ terminal_output' =
                        Push(terminal_output, PortLine("connect_error", port_name))
                 /\ UNCHANGED <<next_handle, connected, termVars>>
       ELSE UNCHANGED <<next_handle, connected, terminal_output, termVars>>
    /\ UNCHANGED <<env, gmVars, xVars, ghostVars, input_text, port_name, available_ports,
                   received_bytes, sent_bytes, serial_port>>

\* Message::DisconnectPort
Term_DisconnectPort ==
    /\ app = "com_term" /\ UserOp
    /\ connected                           \* the view offers Disconnect
    /\ IF port_name # NoPort
       THEN /\ connected' = FALSE
            /\ serial_port' = 0
            /\ terminal_output' =
                   Push(terminal_output, PortLine("disconnected_from", port_name))
       ELSE UNCHANGED <<connected, serial_port, terminal_output>>
    /\ UNCHANGED <<env, gmVars, xVars, next_handle, ghostVars, input_text, port_name, available_ports,
                   received_bytes, sent_bytes, termVars>>

\* the port thread announces itself
Term_ThreadStart(h) ==
    /\ app = "com_term"
    /\ thread[h] = "start"
    /\ chan' = [chan EXCEPT ![h] =
                  Append(@, Msg("DataReceived", Lit("thread_started"), h, "none", 0))]
    /\ thread' = [thread EXCEPT ![h] = "loop"]
    /\ UNCHANGED <<env, gmVars, xVars, ops, next_handle, ghostVars, ctVars, rx, tx, write_tx, sub_rx, write_q>>

\* the write step of one loop iteration: write_rx.try_recv()
TermWriteStep(h, o) ==
    IF write_q[h] # <<>>
    THEN IF o = "ok"
         THEN [msgs |-> <<Msg("DataReceived", Lit("write_ok"), h, "none", 0)>>,
               wrote |-> <<as_bytes(Head(write_q[h]))>>, failed |-> FALSE, stop |-> FALSE]
         ELSE [msgs |-> <<Msg("DataReceived", Lit("write_error"), h, "none", 0)>>,
               wrote |-> <<>>, failed |-> TRUE, stop |-> FALSE]
    ELSE IF write_tx = h
         THEN [msgs |-> <<>>, wrote |-> <<>>, failed |-> FALSE, stop |-> FALSE]
         ELSE [msgs |-> <<Msg("DataReceived", Lit("write_closed"), h, "none", 0)>>,
               wrote |-> <<>>, failed |-> FALSE, stop |-> TRUE]

\* the read step of one loop iteration: port.read(&mut buf)
TermReadStep(h, o) ==
    CASE o.r = "data" ->
           [msgs |-> <<Msg("DataReceived", Lit("got_bytes"), h, "data", Len(readlog) + 1),
                       Msg("DataReceived", Raw(from_utf8_lossy(o.bytes)), h, "data",
                           Len(readlog) + 1)>>,
            chunk |-> <<o.bytes>>, failed |-> FALSE, stop |-> FALSE]
      [] o.r = "error" ->
           [msgs |-> <<Msg("DataReceived", Lit("read_error"), h, "error", 0)>>,
            chunk |-> <<>>, failed |-> TRUE, stop |-> TRUE]
      [] OTHER ->
           [msgs |-> <<>>, chunk |-> <<>>, failed |-> FALSE, stop |-> FALSE]

\* one iteration of the port thread's loop, and what follows the loop when it breaks
Term_ThreadLoop(h, ow, rd) ==
    /\ app = "com_term"
    /\ thread[h] = "loop"
    /\ LET w == TermWriteStep(h, ow)
           r == IF w.stop
                THEN [msgs |-> <<>>, chunk |-> <<>>, failed |-> FALSE, stop |-> TRUE]
                ELSE TermReadStep(h, rd)
           bye == IF r.stop
                  THEN <<Msg("DataReceived", Lit("thread_ended"), h,
                             IF r.failed THEN "error" ELSE "none", 0)>>
                  ELSE <<>>
           fails == (IF w.failed THEN 1 ELSE 0) + (IF r.failed THEN 1 ELSE 0)
       IN /\ (r.chunk # <<>> \/ fails > 0) => IoLeft
          /\ errs' = errs + fails
          /\ write_q' = [write_q EXCEPT ![h] = IF @ # <<>> THEN Tail(@) ELSE @]
          /\ wire' = wire \o w.wrote
          /\ write_failed' = IF w.failed THEN write_failed \cup {h} ELSE write_failed
          /\ late_io' = late_io
                \cup (IF write_q[h] # <<>> /\ h \in write_failed THEN {"write"} ELSE {})
                \cup (IF ~w.stop /\ h \in read_failed THEN {"read"} ELSE {})
          /\ readlog' = readlog \o r.chunk
          /\ read_failed' = IF r.failed THEN read_failed \cup {h} ELSE read_failed
          /\ chan' = [chan EXCEPT ![h] = @ \o w.msgs \o r.msgs \o bye]
          /\ thread' = [thread EXCEPT ![h] = IF r.stop THEN "done" ELSE "loop"]
    /\ UNCHANGED <<env, gmVars, xVars, ops, next_handle, submitted, delivered, ctVars, rx, tx, write_tx, sub_rx>>

\* ComReceiver hands the next queued message to update(): Message::DataReceived
Term_DataReceived ==
    /\ app = "com_term"
    /\ sub_rx # 0
    /\ chan[sub_rx] # <<>>
    /\ LET msg == Head(chan[sub_rx]) IN
         /\ terminal_output' = Push(terminal_output, Line("DataReceived", msg.t))
         /\ received_bytes' = received_bytes + txt_len(msg.t)
         /\ delivered' = Record(delivered, msg)
    /\ chan' = [chan EXCEPT ![sub_rx] = Tail(@)]
    /\ UNCHANGED <<env, gmVars, xVars, ops, next_handle, ioVars, input_text, connected, port_name,
                   available_ports, sent_bytes, serial_port,
                   rx, tx, write_tx, sub_rx, write_q, thread>>

NextTerm ==
    \/ \E text \in Inputs : Term_InputChanged(text)
    \/ \E port \in PortNames : Term_PortSelected(port)
    \/ \E o \in WriteOutcomes : Term_SendData(o)
    \/ \E o \in OpenOutcomes : Term_ConnectPort(o)
    \/ Term_DisconnectPort
    \/ \E h \in Handles : Term_ThreadStart(h)
    \/ \E h \in Handles, ow \in WriteOutcomes, rd \in ReadOutcomes : Term_ThreadLoop(h, ow, rd)
    \/ Term_DataReceived

\* ==================================================== claude_com2.rs
\* Message::InputChanged
Com2_InputChanged(text) ==
    /\ app = "claude_com2" /\ UserOp
    /\ input_text' = text
    /\ UNCHANGED <<env, gmVars, xVars, next_handle, ghostVars, terminal_output, connected, port_name,
                   available_ports, received_bytes, sent_bytes, serial_port, termVars>>

\* Message::PortSelected, from the pick list over available_ports
Com2_PortSelected(port) ==
    /\ app = "claude_com2" /\ UserOp
    /\ port \in SeqToSet(available_ports)
    /\ port_name' = port
    /\ UNCHANGED <<env, gmVars, xVars, next_handle, ghostVars, input_text, terminal_output, connected,
                   available_ports, received_bytes, sent_bytes, serial_port, termVars>>

\* Message::BaudRateSelected, from the pick list over baud_rates
Com2_BaudRateSelected(baud) ==
    /\ app = "claude_com2" /\ UserOp
    /\ baud_rate' = baud
    /\ UNCHANGED <<env, gmVars, next_handle, ghostVars, ctVars, termVars, tasks, inbox,
                   writer_sender>>

\* Message::RefreshPorts: available_ports() called in update()
Com2_RefreshPorts ==
    /\ app = "claude_com2" /\ UserOp
    /\ IF os_ports = EnumErr
       THEN /\ terminal_output' = Push(terminal_output, StatusLine("ports_error"))
            /\ UNCHANGED available_ports
       ELSE /\ available_ports' = os_ports
            /\ terminal_output' = Push(terminal_output, StatusLine("ports_found"))
    /\ UNCHANGED <<env, gmVars, xVars, next_handle, ghostVars, input_text, connected,
                   port_name, received_bytes, sent_bytes, serial_port, termVars>>

\* Message::SendData: write_all on the UI thread
Com2_SendData(o) ==
    /\ app = "claude_com2" /\ UserOp
    /\ IF input_text # <<>> /\ connected
       THEN /\ submitted' = Append(submitted, as_bytes(input_text))
            /\ sent_bytes' = sent_bytes + str_len(input_text)
            /\ IF serial_port # 0
               THEN /\ late_io' = IF serial_port \in write_failed
                                  THEN late_io \cup {"write"} ELSE late_io
                    /\ IF o = "ok"
                       THEN /\ wire' = Append(wire, as_bytes(input_text))
                            /\ UNCHANGED <<write_failed, errs, delivered>>
                            /\ terminal_output' = PushAll(terminal_output,
                                 {Line("sent_echo", Raw(input_text)), StatusLine("write_ok")})
                       ELSE /\ IoLeft
                            /\ write_failed' = write_failed \cup {serial_port}
                            /\ errs' = errs + 1
                            /\ wire' = wire
                            /\ delivered' = Append(delivered,
                                 Msg("SendData", Lit("write_error"), serial_port,
                                     "write_error", 0))
                            /\ terminal_output' = PushAll(terminal_output,
                                 {Line("sent_echo", Raw(input_text)), StatusLine("write_error")})
               ELSE /\ terminal_output' =
                         Push(terminal_output, Line("sent_echo", Raw(input_text)))
                    /\ UNCHANGED <<wire, write_failed, late_io, errs, delivered>>
            /\ input_text' = <<>>
            /\ UNCHANGED <<readlog, read_failed>>
       ELSE UNCHANGED <<ghostVars, input_text, terminal_output, sent_bytes>>
    /\ UNCHANGED <<env, gmVars, xVars, next_handle, connected, port_name, available_ports,
                   received_bytes, serial_port, termVars>>

\* Message::ConnectPort: open on the UI thread
Com2_ConnectPort(o) ==
    /\ app = "claude_com2" /\ UserOp
    /\ ~connected                          \* the view offers Connect
    /\ CanOpen(o)
    /\ IF port_name # NoPort
       THEN IF o = "ok"
            THEN /\ next_handle' = next_handle + 1
                 /\ connected' = TRUE
                 /\ serial_port' = next_handle'
                 /\ terminal_output' =
                        Push(terminal_output, PortLine("connected_to", port_name))
            ELSE /\ terminal_output' =
                        Push(terminal_output, PortLine("connect_error", port_name))
                 /\ UNCHANGED <<next_handle, connected, serial_port>>
       ELSE UNCHANGED <<next_handle, connected, serial_port, terminal_output>>
    /\ UNCHANGED <<env, gmVars, xVars, ghostVars, input_text, port_name, available_ports,
                   received_bytes, sent_bytes, termVars>>

\* Message::DisconnectPort
Com2_DisconnectPort ==
    /\ app = "claude_com2" /\ UserOp
    /\ connected                           \* the view offers Disconnect
    /\ IF port_name # NoPort
       THEN /\ connected' = FALSE
            /\ serial_port' = 0
            /\ terminal_output' =
                   Push(terminal_output, PortLine("disconnected_from", port_name))
       ELSE UNCHANGED <<connected, serial_port, terminal_output>>
    /\ UNCHANGED <<env, gmVars, xVars, next_handle, ghostVars, input_text, port_name, available_ports,
                   received_bytes, sent_bytes, termVars>>

\* Message::Tick, every 100 ms while connected: one read on the UI thread
Com2_Tick(rd) ==
    /\ app = "claude_com2"
    /\ connected                           \* subscription()
    /\ IF serial_port # 0
       THEN /\ late_io' = IF serial_port \in read_failed
                          THEN late_io \cup {"read"} ELSE late_io
            /\ CASE rd.r = "data" ->
                      /\ IoLeft
                      /\ readlog' = Append(readlog, rd.bytes)
                      /\ terminal_output' = Push(terminal_output,
                             Line("received", Raw(from_utf8_lossy(rd.bytes))))
                      /\ received_bytes' =
                             received_bytes + str_len(from_utf8_lossy(rd.bytes))
                      /\ delivered' = Append(delivered,
                             Msg("Tick", Raw(from_utf8_lossy(rd.bytes)), serial_port,
                                 "data", Len(readlog) + 1))
                      /\ UNCHANGED <<read_failed, errs>>
                 [] rd.r = "error" ->
                      /\ IoLeft
                      /\ read_failed' = read_failed \cup {serial_port}
                      /\ errs' = errs + 1
                      /\ terminal_output' = Push(terminal_output, StatusLine("read_error"))
                      /\ delivered' = Append(delivered,
                             Msg("Tick", Lit("read_error"), serial_port, "error", 0))
                      /\ UNCHANGED <<readlog, received_bytes>>
                 [] OTHER ->
                      UNCHANGED <<readlog, read_failed, errs, terminal_output,
                                  received_bytes, delivered>>
       ELSE UNCHANGED <<late_io, readlog, read_failed, errs, terminal_output,
                        received_bytes, delivered>>
    /\ UNCHANGED <<env, gmVars, xVars, ops, next_handle, wire, submitted, write_failed, input_text,
                   connected, port_name, available_ports, sent_bytes, serial_port, termVars>>

NextCom2 ==
    \/ \E text \in Inputs : Com2_InputChanged(text)
    \/ \E port \in PortNames : Com2_PortSelected(port)
    \/ \E baud \in BaudRates : Com2_BaudRateSelected(baud)
    \/ Com2_RefreshPorts
    \/ \E o \in WriteOutcomes : Com2_SendData(o)
    \/ \E o \in OpenOutcomes : Com2_ConnectPort(o)
    \/ Com2_DisconnectPort
    \/ \E rd \in ReadOutcomes : Com2_Tick(rd)


\* ==================================================== claude_com4.rs
\* the stream of a session is dropped when subscription() stops returning it
DropStream(h) == IF h # 0 THEN [thread EXCEPT ![h] = "done"] ELSE thread

\* the length over which DataReceived drops a line of terminal_output
LOG_CAP == 100

\* Message::PortsUpdated, the result of get_available_ports() (an enumeration
\* error arrives as the empty list)
Com4_PortsUpdated ==
    /\ app = "claude_com4"
    /\ BagIn(PortsTask, tasks)
    /\ tasks' = Complete(tasks, PortsTask)
    /\ available_ports' = OkPorts
    /\ IF OkPorts = <<>>
       THEN /\ terminal_output' = Push(terminal_output, StatusLine("ports_none"))
            /\ UNCHANGED port_name
       ELSE /\ terminal_output' = Push(terminal_output, StatusLine("ports_found"))
            /\ port_name' = IF port_name = NoPort THEN Head(OkPorts) ELSE port_name
    /\ UNCHANGED <<env, gmVars, ops, next_handle, ghostVars, input_text, connected,
                   received_bytes, sent_bytes, serial_port, termVars,
                   inbox, writer_sender, baud_rate>>

\* Message::RefreshPorts, from the button of the settings view
Com4_RefreshPorts ==
    /\ app = "claude_com4" /\ UserOp
    /\ terminal_output' = Push(terminal_output, StatusLine("loading"))
    /\ tasks' = Spawn(tasks, PortsTask)
    /\ UNCHANGED <<env, gmVars, next_handle, ghostVars, input_text, connected, port_name,
                   available_ports, received_bytes, sent_bytes, serial_port, termVars,
                   inbox, writer_sender, baud_rate>>

\* Message::InputChanged
Com4_InputChanged(text) ==
    /\ app = "claude_com4" /\ UserOp
    /\ input_text' = text
    /\ UNCHANGED <<env, gmVars, xVars, next_handle, ghostVars, terminal_output, connected, port_name,
                   available_ports, received_bytes, sent_bytes, serial_port, termVars>>

\* Message::PortSelected, from the pick list over available_ports
Com4_PortSelected(port) ==
    /\ app = "claude_com4" /\ UserOp
    /\ port \in SeqToSet(available_ports)
    /\ port_name' = port
    /\ UNCHANGED <<env, gmVars, xVars, next_handle, ghostVars, input_text, terminal_output, connected,
                   available_ports, received_bytes, sent_bytes, serial_port, termVars>>

\* Message::ConnectPort: open on the UI thread; subscription() then starts
\* the "port_duplex_stream" over the new handle
Com4_ConnectPort(o) ==
    /\ app = "claude_com4" /\ UserOp
    /\ ~connected                          \* the view offers Connect
    /\ CanOpen(o)
    /\ IF port_name # NoPort
       THEN IF o = "ok"
            THEN /\ next_handle' = next_handle + 1
                 /\ connected' = TRUE
                 /\ serial_port' = next_handle'
                 /\ thread' = [thread EXCEPT ![next_handle'] = "start"]
                 /\ terminal_output' =
                        Push(terminal_output, PortLine("connected_to", port_name))
            ELSE /\ terminal_output' =
                        Push(terminal_output, PortLine("connect_error", port_name))
                 /\ UNCHANGED <<next_handle, connected, serial_port, thread>>
       ELSE UNCHANGED <<next_handle, connected, serial_port, thread, terminal_output>>
    /\ UNCHANGED <<env, gmVars, xVars, ghostVars, input_text, port_name, available_ports,
                   received_bytes, sent_bytes, chEnds, chan, write_q>>

\* Message::DisconnectPort
Com4_DisconnectPort ==
    /\ app = "claude_com4" /\ UserOp
    /\ connected                           \* the view offers Disconnect
    /\ IF port_name # NoPort
       THEN /\ connected' = FALSE
            /\ serial_port' = 0
            /\ writer_sender' = 0
            /\ thread' = DropStream(serial_port)
            /\ terminal_output' =
                   Push(terminal_output, PortLine("disconnected_from", port_name))
       ELSE UNCHANGED <<connected, serial_port, writer_sender, thread, terminal_output>>
    /\ UNCHANGED <<env, gmVars, tasks, inbox, baud_rate, next_handle, ghostVars, input_text, port_name,
                   available_ports, received_bytes, sent_bytes, chEnds, chan, write_q>>

\* Message::SendData: hands the bytes to a Task that sends them on writer_sender
Com4_SendData ==
    /\ app = "claude_com4" /\ UserOp
    /\ IF input_text # <<>> /\ connected
       THEN /\ submitted' = Append(submitted, as_bytes(input_text))
            /\ terminal_output' = Push(terminal_output, Line("sent_echo", Raw(input_text)))
            /\ sent_bytes' = sent_bytes + str_len(input_text)
            /\ IF writer_sender # 0
               THEN /\ tasks' = Spawn(tasks, Task("send", as_bytes(input_text), writer_sender))
                    /\ UNCHANGED input_text
               ELSE /\ input_text' = <<>>
                    /\ UNCHANGED tasks
       ELSE UNCHANGED <<submitted, terminal_output, sent_bytes, tasks, input_text>>
    /\ UNCHANGED <<env, gmVars, next_handle, wire, readlog, read_failed, write_failed, late_io, errs,
                   delivered, connected, port_name, available_ports, received_bytes,
                   serial_port, termVars, inbox, writer_sender, baud_rate>>

\* The Task of SendData completes: sender.send(data).await, whose error is
\* dropped, then Message::DataReceived("") which update() ignores.
Com4_SendTask ==
    /\ app = "claude_com4"
    /\ \E t \in BagToSet(tasks) :
          /\ t.kind = "send"
          /\ tasks' = Complete(tasks, t)
          /\ write_q' = IF thread[t.to] = "loop"
                        THEN [write_q EXCEPT ![t.to] = Append(@, t.data)]
                        ELSE write_q
    /\ UNCHANGED <<env, gmVars, ops, next_handle, ghostVars, ctVars, chEnds, chan, thread,
                   inbox, writer_sender, baud_rate>>

\* first iteration of the stream: creates the write channel, emits SetSender
Com4_StreamStart(h) ==
    /\ app = "claude_com4"
    /\ thread[h] = "start"
    /\ inbox' = Append(inbox, Msg("SetSender", Lit("sender"), h, "none", 0))
    /\ thread' = [thread EXCEPT ![h] = "loop"]
    /\ UNCHANGED <<env, gmVars, ops, next_handle, ghostVars, ctVars, chEnds, chan, write_q,
                   tasks, writer_sender, baud_rate>>

\* an iteration of the stream in which select! takes the read branch
Com4_StreamRead(h, rd) ==
    /\ app = "claude_com4"
    /\ thread[h] = "loop"
    /\ rd.r # "zero" => IoLeft
    /\ late_io' = IF h \in read_failed THEN late_io \cup {"read"} ELSE late_io
    /\ readlog' = IF rd.r = "data" THEN Append(readlog, rd.bytes) ELSE readlog
    /\ read_failed' = IF rd.r = "error" THEN read_failed \cup {h} ELSE read_failed
    /\ errs' = IF rd.r \in {"error", "timeout"} THEN errs + 1 ELSE errs
    /\ inbox' =
          CASE rd.r = "data" ->
                 Append(inbox, Msg("DataReceived", Raw(from_utf8_lossy(rd.bytes)), h,
                                   "data", Len(readlog) + 1))
            [] rd.r = "zero" -> inbox
            [] OTHER -> Append(inbox, Msg("PortError", Lit("io_error"), h, rd.r, 0))
    /\ UNCHANGED <<env, gmVars, ops, next_handle, wire, submitted, write_failed, delivered,
                   ctVars, termVars, tasks, writer_sender, baud_rate>>

\* an iteration in which select! takes the write branch: the read it started
\* still runs to its end on the blocking pool, and its result is dropped; the
\* write then takes the lock, and its result is dropped too
Com4_StreamWrite(h, rd, ow) ==
    /\ app = "claude_com4"
    /\ thread[h] = "loop"
    /\ write_q[h] # <<>>
    /\ IoFits((IF rd.r \in {"data", "error"} THEN 1 ELSE 0) + (IF ow = "error" THEN 1 ELSE 0))
    /\ write_q' = [write_q EXCEPT ![h] = Tail(@)]
    /\ late_io' = late_io
          \cup (IF h \in read_failed THEN {"read"} ELSE {})
          \cup (IF h \in write_failed THEN {"write"} ELSE {})
    /\ readlog' = IF rd.r = "data" THEN Append(readlog, rd.bytes) ELSE readlog
    /\ read_failed' = IF rd.r = "error" THEN read_failed \cup {h} ELSE read_failed
    /\ wire' = IF ow = "ok" THEN Append(wire, Head(write_q[h])) ELSE wire
    /\ write_failed' = IF ow = "error" THEN write_failed \cup {h} ELSE write_failed
    /\ errs' = errs + (IF rd.r = "error" THEN 1 ELSE 0) + (IF ow = "error" THEN 1 ELSE 0)
    /\ UNCHANGED <<env, gmVars, ops, next_handle, submitted, delivered, ctVars, chEnds, chan,
                   thread, xVars>>

\* Message::SetSender
Com4_SetSender ==
    /\ app = "claude_com4"
    /\ inbox # <<>> /\ Head(inbox).m = "SetSender"
    /\ inbox' = Tail(inbox)
    /\ writer_sender' = Head(inbox).h
    /\ UNCHANGED <<env, gmVars, ops, next_handle, ghostVars, ctVars, termVars, tasks, baud_rate>>

\* Message::DataReceived (the cap of 100 lines pops the oldest line; the log
\* of a behaviour stays far below it)
Com4_DataReceived ==
    /\ app = "claude_com4"
    /\ inbox # <<>> /\ Head(inbox).m = "DataReceived"
    /\ inbox' = Tail(inbox)
    /\ LET msg == Head(inbox) IN
         /\ delivered' = Record(delivered, msg)
         /\ IF msg.t.s # <<>>
            THEN /\ LET pushed == Push(terminal_output, Line("received", msg.t))
                    IN  IF BagCardinality(pushed) > LOG_CAP
                        THEN \* pop_front: the bag keeps no order, so the line that
                             \* goes may be any of them
                             terminal_output' \in
                                 {pushed (-) SetToBag({l}) : l \in BagToSet(pushed)}
                        ELSE terminal_output' = pushed
                 /\ received_bytes' = received_bytes + txt_len(msg.t)
            ELSE UNCHANGED <<terminal_output, received_bytes>>
    /\ UNCHANGED <<env, gmVars, ops, next_handle, ioVars, input_text, connected, port_name,
                   available_ports, sent_bytes, serial_port, termVars,
                   tasks, writer_sender, baud_rate>>

\* Message::PortError
Com4_PortError ==
    /\ app = "claude_com4"
    /\ inbox # <<>> /\ Head(inbox).m = "PortError"
    /\ inbox' = Tail(inbox)
    /\ delivered' = Record(delivered, Head(inbox))
    /\ connected' = FALSE
    /\ serial_port' = 0
    /\ writer_sender' = 0
    /\ thread' = DropStream(serial_port)
    /\ terminal_output' = Push(terminal_output, Line("port_error", Head(inbox).t))
    /\ UNCHANGED <<env, gmVars, ops, next_handle, ioVars, input_text, port_name, available_ports,
                   received_bytes, sent_bytes, chEnds, chan, write_q, tasks, baud_rate>>

NextCom4 ==
    \/ Com4_PortsUpdated
    \/ Com4_RefreshPorts
    \/ \E text \in Inputs : Com4_InputChanged(text)
    \/ \E port \in PortNames : Com4_PortSelected(port)
    \/ \E o \in OpenOutcomes : Com4_ConnectPort(o)
    \/ Com4_DisconnectPort
    \/ Com4_SendData
    \/ Com4_SendTask
    \/ \E h \in Handles : Com4_StreamStart(h)
    \/ \E h \in Handles, rd \in ReadOutcomes : Com4_StreamRead(h, rd)
    \/ \E h \in Handles, rd \in ReadOutcomes, ow \in WriteOutcomes : Com4_StreamWrite(h, rd, ow)
    \/ Com4_SetSender
    \/ Com4_DataReceived
    \/ Com4_PortError


\* ======================================================== com_gpt.rs
\* (SerialApp with its default line_mode = false.)
\* RefreshPorts (at start and every 5 s), list_ports(), then Message::Ports
Gpt_Ports ==
    /\ app = "com_gpt"
    /\ available_ports' = OkPorts
    /\ port_name' = IF port_name = NoPort \/ port_name \notin SeqToSet(OkPorts)
                    THEN (IF OkPorts = <<>> THEN NoPort ELSE Head(OkPorts))
                    ELSE port_name
    /\ UNCHANGED <<env, gmVars, ops, next_handle, ghostVars, input_text, terminal_output, connected,
                   received_bytes, sent_bytes, serial_port, termVars, xVars>>

\* Message::SelectPort, from the pick list over ports
Gpt_SelectPort(port) ==
    /\ app = "com_gpt" /\ UserOp
    /\ port \in SeqToSet(available_ports)
    /\ port_name' = port
    /\ UNCHANGED <<env, gmVars, xVars, next_handle, ghostVars, input_text, terminal_output, connected,
                   available_ports, received_bytes, sent_bytes, serial_port, termVars>>

\* Message::InputChanged
Gpt_InputChanged(text) ==
    /\ app = "com_gpt" /\ UserOp
    /\ input_text' = text
    /\ UNCHANGED <<env, gmVars, xVars, next_handle, ghostVars, terminal_output, connected, port_name,
                   available_ports, received_bytes, sent_bytes, serial_port, termVars>>

\* Message::ConnectToggle.  The Task of the disconnect path is an empty
\* future: its Message::Disconnect is queued at once.
Gpt_ConnectToggle ==
    /\ app = "com_gpt" /\ UserOp
    /\ IF serial_port # 0
       THEN /\ serial_port' = 0
            /\ thread' = DropStream(serial_port)
            /\ terminal_output' = Push(terminal_output, StatusLine("disconnected"))
            /\ inbox' = Append(inbox, Msg("Disconnect", Lit("disconnect"), serial_port, "none", 0))
            /\ UNCHANGED tasks
       ELSE IF port_name # NoPort
            THEN /\ terminal_output' = Push(terminal_output, PortLine("opening", port_name))
                 /\ tasks' = Spawn(tasks, Task("open", <<>>, 0))
                 /\ UNCHANGED <<serial_port, thread, inbox>>
            ELSE /\ terminal_output' = Push(terminal_output, StatusLine("no_port_selected"))
                 /\ UNCHANGED <<serial_port, thread, inbox, tasks>>
    /\ UNCHANGED <<env, gmVars, next_handle, ghostVars, input_text, connected, port_name,
                   available_ports, received_bytes, sent_bytes, chEnds, chan, write_q,
                   writer_sender, baud_rate>>

\* serial_ops::open_port_async completes; its result travels as PortOpened
Gpt_OpenTask(o) ==
    /\ app = "com_gpt"
    /\ CanOpen(o)
    /\ \E t \in BagToSet(tasks) :
          /\ t.kind = "open"
          /\ tasks' = Complete(tasks, t)
    /\ IF o = "ok"
       THEN /\ next_handle' = next_handle + 1
            /\ inbox' = Append(inbox, Msg("PortOpened", Lit("ok"), next_handle', "none", 0))
       ELSE /\ inbox' = Append(inbox, Msg("PortOpened", Lit("open_error"), 0, "open_error", 0))
            /\ UNCHANGED next_handle
    /\ UNCHANGED <<env, gmVars, ops, ghostVars, ctVars, termVars, writer_sender, baud_rate>>

\* Message::PortOpened(Ok(h)) and Message::PortOpened(Err(e)); subscription()
\* starts the read loop over a stored handle
Gpt_PortOpened ==
    /\ app = "com_gpt"
    /\ inbox # <<>> /\ Head(inbox).m = "PortOpened"
    /\ inbox' = Tail(inbox)
    /\ IF Head(inbox).h # 0
       THEN /\ serial_port' = Head(inbox).h
            /\ thread' = [thread EXCEPT ![Head(inbox).h] = "start"]
            /\ terminal_output' = Push(terminal_output, StatusLine("connected"))
       ELSE /\ terminal_output' = Push(terminal_output, StatusLine("open_error"))
            /\ UNCHANGED <<serial_port, thread>>
    /\ UNCHANGED <<env, gmVars, ops, next_handle, ghostVars, input_text, connected, port_name,
                   available_ports, received_bytes, sent_bytes, chEnds, chan, write_q,
                   tasks, writer_sender, baud_rate>>

\* Message::Disconnect
Gpt_Disconnect ==
    /\ app = "com_gpt"
    /\ inbox # <<>> /\ Head(inbox).m = "Disconnect"
    /\ inbox' = Tail(inbox)
    /\ serial_port' = 0
    /\ thread' = DropStream(serial_port)
    /\ terminal_output' = Push(terminal_output, StatusLine("disconnected"))
    /\ UNCHANGED <<env, gmVars, ops, next_handle, ghostVars, input_text, connected, port_name,
                   available_ports, received_bytes, sent_bytes, chEnds, chan, write_q,
                   tasks, writer_sender, baud_rate>>

\* Message::ToggleHexMode, from the "Hex mode" checkbox
Gpt_ToggleHexMode(v) ==
    /\ app = "com_gpt" /\ UserOp
    /\ hex_mode' = v
    /\ UNCHANGED <<env, buffer, errors, panicked, data_points, data_counter, hex_out,
                   next_handle,
                   ghostVars, ctVars, termVars, xVars>>

\* Message::SendInput; the Task builds the bytes from the input, the port and
\* the modes captured here (line_mode is off)
Gpt_SendInput ==
    /\ app = "com_gpt" /\ UserOp
    /\ IF serial_port # 0
       THEN /\ UNCHANGED terminal_output
            /\ IF ~hex_mode
               THEN /\ submitted' = Append(submitted, as_bytes(input_text))
                    /\ tasks' = Spawn(tasks,
                                      Task("write", as_bytes(input_text), serial_port))
               ELSE IF hex_to_bytes(input_text).r = "ok"
               THEN /\ submitted' = Append(submitted, hex_to_bytes(input_text).bytes)
                    /\ tasks' = Spawn(tasks, Task("write", hex_to_bytes(input_text).bytes,
                                                  serial_port))
               ELSE /\ tasks' = Spawn(tasks, Task("hex_error", <<>>, serial_port))
                    /\ UNCHANGED submitted
       ELSE /\ terminal_output' = Push(terminal_output, StatusLine("not_connected"))
            /\ UNCHANGED <<submitted, tasks>>
    /\ UNCHANGED <<env, gmVars, next_handle, wire, readlog, read_failed, write_failed, late_io, errs,
                   delivered, input_text, connected, port_name, available_ports,
                   received_bytes, sent_bytes, serial_port, termVars,
                   inbox, writer_sender, baud_rate>>

\* The Task of SendInput when hex_to_bytes returns Err: nothing is locked or
\* written, the Err travels as SerialError("Send error: ..").
Gpt_HexErrorTask ==
    /\ app = "com_gpt"
    /\ \E t \in BagToSet(tasks) :
          /\ t.kind = "hex_error"
          /\ tasks' = Complete(tasks, t)
          /\ inbox' = Append(inbox, Msg("SerialError", Lit("send_error"), t.to, "none", 0))
    /\ UNCHANGED <<env, gmVars, ops, next_handle, ghostVars, ctVars, termVars,
                   writer_sender, baud_rate>>

\* a writer that calls write_all without taking the port's lock
Gpt_WriteTaskUnlocked(o) ==
    /\ app = "com_gpt"
    /\ o = "error" => IoLeft
    /\ \E t \in BagToSet(tasks) :
          /\ t.kind = "write"
          /\ tasks' = Complete(tasks, t)
          /\ late_io' = IF t.to \in write_failed THEN late_io \cup {"write"} ELSE late_io
          /\ IF o = "ok"
             THEN /\ wire' = Append(wire, t.data)
                  /\ inbox' = Append(inbox,
                         Msg("SerialData", Txt("sent_hex", bytes_to_hex(t.data), NoPort),
                             t.to, "none", 0))
                  /\ UNCHANGED <<write_failed, errs>>
             ELSE /\ write_failed' = write_failed \cup {t.to}
                  /\ errs' = errs + 1
                  /\ inbox' = Append(inbox,
                         Msg("SerialError", Lit("send_error"), t.to, "write_error", 0))
                  /\ UNCHANGED wire
    /\ UNCHANGED <<env, gmVars, ops, next_handle, submitted, readlog, read_failed, delivered,
                   ctVars, termVars, writer_sender, baud_rate>>

\* The Task of SendInput takes the port's lock, which the read loop holds
\* while a read is pending, and calls write_all; its result travels as
\* SerialData("=> hex") or SerialError("Send error: ..").
Gpt_WriteTask(o) ==
    /\ app = "com_gpt"
    /\ o = "error" => IoLeft
    /\ \E t \in BagToSet(tasks) :
          /\ t.kind = "write"
          /\ thread[t.to] # "loop"
          /\ tasks' = Complete(tasks, t)
          /\ late_io' = IF t.to \in write_failed THEN late_io \cup {"write"} ELSE late_io
          /\ IF o = "ok"
             THEN /\ wire' = Append(wire, t.data)
                  /\ inbox' = Append(inbox,
                         Msg("SerialData", Txt("sent_hex", bytes_to_hex(t.data), NoPort),
                             t.to, "none", 0))
                  /\ UNCHANGED <<write_failed, errs>>
             ELSE /\ write_failed' = write_failed \cup {t.to}
                  /\ errs' = errs + 1
                  /\ inbox' = Append(inbox,
                         Msg("SerialError", Lit("send_error"), t.to, "write_error", 0))
                  /\ UNCHANGED wire
    /\ UNCHANGED <<env, gmVars, ops, next_handle, submitted, readlog, read_failed, delivered,
                   ctVars, termVars, writer_sender, baud_rate>>

\* the read loop takes the port's lock and starts a read
Gpt_StreamLock(h) ==
    /\ app = "com_gpt"
    /\ thread[h] \in {"start", "yield"}
    /\ thread' = [thread EXCEPT ![h] = "loop"]
    /\ UNCHANGED <<env, gmVars, ops, next_handle, ghostVars, ctVars, chEnds, chan, write_q, xVars>>

\* the pending read returns (a SerialStream read has no timeout)
Gpt_StreamRead(h, rd) ==
    /\ app = "com_gpt"
    /\ thread[h] = "loop"
    /\ rd.r # "timeout"
    /\ rd.r # "zero" => IoLeft
    /\ readlog' = IF rd.r = "data" THEN Append(readlog, rd.bytes) ELSE readlog
    /\ read_failed' = IF rd.r = "error" THEN read_failed \cup {h} ELSE read_failed
    /\ errs' = IF rd.r = "error" THEN errs + 1 ELSE errs
    /\ inbox' =
          CASE rd.r = "data" ->
                 Append(inbox, Msg("SerialData", Raw(from_utf8_lossy(rd.bytes)), h,
                                   "data", Len(readlog) + 1))
            [] rd.r = "error" ->
                 Append(inbox, Msg("SerialError", Lit("io_error"), h, "error", 0))
            [] OTHER -> inbox
    /\ thread' = [thread EXCEPT ![h] = IF rd.r = "error" THEN "done" ELSE "yield"]
    /\ UNCHANGED <<env, gmVars, ops, next_handle, wire, submitted, write_failed, late_io, delivered,
                   ctVars, chEnds, chan, write_q, tasks, writer_sender, baud_rate>>

\* Message::SerialData
Gpt_SerialData ==
    /\ app = "com_gpt"
    /\ inbox # <<>> /\ Head(inbox).m = "SerialData"
    /\ inbox' = Tail(inbox)
    /\ terminal_output' =          \* in hex mode the text is shown as a hex dump
          Push(terminal_output,
               Line(IF hex_mode THEN "SerialDataHex" ELSE "SerialData", Head(inbox).t))
    /\ delivered' = Record(delivered, Head(inbox))
    /\ UNCHANGED <<env, gmVars, ops, next_handle, ioVars, input_text, connected, port_name,
                   available_ports, received_bytes, sent_bytes, serial_port, termVars,
                   tasks, writer_sender, baud_rate>>

\* Message::SerialError
Gpt_SerialError ==
    /\ app = "com_gpt"
    /\ inbox # <<>> /\ Head(inbox).m = "SerialError"
    /\ inbox' = Tail(inbox)
    /\ terminal_output' = Push(terminal_output, Line("SerialError", Head(inbox).t))
    /\ serial_port' = 0
    /\ thread' = DropStream(serial_port)
    /\ delivered' = Record(delivered, Head(inbox))
    /\ UNCHANGED <<env, gmVars, ops, next_handle, ioVars, input_text, connected, port_name,
                   available_ports, received_bytes, sent_bytes, chEnds, chan, write_q,
                   tasks, writer_sender, baud_rate>>

NextGpt ==
    \/ Gpt_Ports
    \/ \E port \in PortNames : Gpt_SelectPort(port)
    \/ \E text \in Inputs \cup {<<52, 49>>} : Gpt_InputChanged(text)  \* and "41"
    \/ \E v \in BOOLEAN : Gpt_ToggleHexMode(v)
    \/ Gpt_ConnectToggle
    \/ Gpt_HexErrorTask
    \/ \E o \in OpenOutcomes : Gpt_OpenTask(o)
    \/ Gpt_PortOpened
    \/ Gpt_Disconnect
    \/ Gpt_SendInput
    \/ \E o \in WriteOutcomes : Gpt_WriteTask(o)
    \/ \E h \in Handles : Gpt_StreamLock(h)
    \/ \E h \in Handles, rd \in ReadOutcomes : Gpt_StreamRead(h, rd)
    \/ Gpt_SerialData
    \/ Gpt_SerialError


\* =========================================================== main.rs
\* (Terminal: log is terminal_output, port is serial_port, selected_port is
\* port_name; selected_baud_rate stays Some; sending from a file is left out.)
\* Message::ScanPorts, every 5 s: starts find_ports() again
Main_ScanPorts ==
    /\ app = "main" /\ UserOp
    /\ ~BagIn(PortsTask, tasks)
    /\ tasks' = Spawn(tasks, PortsTask)
    /\ UNCHANGED <<env, gmVars, next_handle, ghostVars, ctVars, termVars, inbox, writer_sender,
                   baud_rate>>

\* find_ports() completes: Message::PortsFound(Ok(ports)) / PortsFound(Err(e))
Main_PortsFound ==
    /\ app = "main"
    /\ BagIn(PortsTask, tasks)
    /\ tasks' = Complete(tasks, PortsTask)
    /\ IF os_ports = EnumErr
       THEN /\ terminal_output' = Push(terminal_output, StatusLine("ports_error"))
            /\ UNCHANGED <<available_ports, port_name>>
       ELSE /\ IF available_ports # os_ports
               THEN /\ available_ports' = os_ports
                    /\ port_name' = IF os_ports = <<>> THEN NoPort ELSE Head(os_ports)
               ELSE UNCHANGED <<available_ports, port_name>>
            /\ UNCHANGED terminal_output
    /\ UNCHANGED <<env, gmVars, ops, next_handle, ghostVars, input_text, connected,
                   received_bytes, sent_bytes, serial_port, termVars,
                   inbox, writer_sender, baud_rate>>

\* Message::PortSelected, from the pick list over available_ports
Main_PortSelected(port) ==
    /\ app = "main" /\ UserOp
    /\ port \in SeqToSet(available_ports)
    /\ port_name' = port
    /\ UNCHANGED <<env, gmVars, xVars, next_handle, ghostVars, input_text, terminal_output, connected,
                   available_ports, received_bytes, sent_bytes, serial_port, termVars>>

\* Message::InputChanged
Main_InputChanged(text) ==
    /\ app = "main" /\ UserOp
    /\ input_text' = text
    /\ UNCHANGED <<env, gmVars, xVars, next_handle, ghostVars, terminal_output, connected, port_name,
                   available_ports, received_bytes, sent_bytes, serial_port, termVars>>

\* Message::ConnectClicked: the open runs in a Command
Main_ConnectClicked ==
    /\ app = "main" /\ UserOp
    /\ serial_port = 0                     \* the view offers "Открыть"
    /\ IF port_name # NoPort
       THEN /\ terminal_output' = Push(terminal_output, PortLine("connecting_to", port_name))
            /\ tasks' = Spawn(tasks, Task("open", <<>>, 0))
       ELSE UNCHANGED <<terminal_output, tasks>>
    /\ UNCHANGED <<env, gmVars, next_handle, ghostVars, input_text, connected, port_name,
                   available_ports, received_bytes, sent_bytes, serial_port, termVars,
                   inbox, writer_sender, baud_rate>>

\* the open of ConnectClicked completes; its result travels as PortConnected
Main_OpenTask(o) ==
    /\ app = "main"
    /\ CanOpen(o)
    /\ BagIn(Task("open", <<>>, 0), tasks)
    /\ tasks' = Complete(tasks, Task("open", <<>>, 0))
    /\ IF o = "ok"
       THEN /\ next_handle' = next_handle + 1
            /\ inbox' = Append(inbox, Msg("PortConnected", Lit("ok"), next_handle', "none", 0))
       ELSE /\ inbox' = Append(inbox,
                   Msg("PortConnected", Lit("open_error"), 0, "open_error", 0))
            /\ UNCHANGED next_handle
    /\ UNCHANGED <<env, gmVars, ops, ghostVars, ctVars, termVars, writer_sender, baud_rate>>

\* Message::PortConnected(Ok(port_arc)) and Message::PortConnected(Err(e));
\* subscription() runs the read stream while a port is stored
Main_PortConnected ==
    /\ app = "main"
    /\ inbox # <<>> /\ Head(inbox).m = "PortConnected"
    /\ inbox' = Tail(inbox)
    /\ IF Head(inbox).h # 0
       THEN /\ serial_port' = Head(inbox).h
            /\ thread' = [thread EXCEPT ![Head(inbox).h] = "loop"]
            /\ terminal_output' = Push(terminal_output, StatusLine("connected"))
       ELSE /\ serial_port' = 0
            /\ thread' = DropStream(serial_port)
            /\ terminal_output' = Push(terminal_output, StatusLine("open_error"))
    /\ UNCHANGED <<env, gmVars, ops, next_handle, ghostVars, input_text, connected, port_name,
                   available_ports, received_bytes, sent_bytes, chEnds, chan, write_q,
                   tasks, writer_sender, baud_rate>>

\* Message::DisconnectClicked
Main_DisconnectClicked ==
    /\ app = "main" /\ UserOp
    /\ serial_port # 0                     \* the view offers "Закрыть"
    /\ serial_port' = 0
    /\ thread' = DropStream(serial_port)
    /\ terminal_output' = Push(terminal_output, StatusLine("disconnected"))
    /\ UNCHANGED <<env, gmVars, next_handle, ghostVars, input_text, connected, port_name,
                   available_ports, received_bytes, sent_bytes, chEnds, chan, write_q, xVars>>

\* Message::InputSubmitted
Main_InputSubmitted ==
    /\ app = "main" /\ UserOp
    /\ IF serial_port # 0
       THEN /\ submitted' = Append(submitted, as_bytes(input_text))
            /\ terminal_output' = Push(terminal_output, Line("sent_echo", Raw(input_text)))
            /\ input_text' = <<>>
            /\ tasks' = Spawn(tasks, Task("write", as_bytes(input_text), serial_port))
       ELSE /\ terminal_output' = Push(terminal_output, StatusLine("not_connected"))
            /\ UNCHANGED <<submitted, input_text, tasks>>
    /\ UNCHANGED <<env, gmVars, next_handle, wire, readlog, read_failed, write_failed, late_io, errs,
                   delivered, connected, port_name, available_ports,
                   received_bytes, sent_bytes, serial_port, termVars,
                   inbox, writer_sender, baud_rate>>

\* The Command of InputSubmitted locks the port and calls write_all;
\* Ok becomes Message::NoOp, Err becomes Message::SerialError.
Main_WriteTask(o) ==
    /\ app = "main"
    /\ o = "error" => IoLeft
    /\ \E t \in BagToSet(tasks) :
          /\ t.kind = "write"
          /\ tasks' = Complete(tasks, t)
          /\ late_io' = IF t.to \in write_failed THEN late_io \cup {"write"} ELSE late_io
          /\ IF o = "ok"
             THEN /\ wire' = Append(wire, t.data)
                  /\ UNCHANGED <<write_failed, errs, inbox>>
             ELSE /\ write_failed' = write_failed \cup {t.to}
                  /\ errs' = errs + 1
                  /\ inbox' = Append(inbox,
                         Msg("SerialError", Lit("io_error"), t.to, "write_error", 0))
                  /\ UNCHANGED wire
    /\ UNCHANGED <<env, gmVars, ops, next_handle, submitted, readlog, read_failed, delivered,
                   ctVars, termVars, writer_sender, baud_rate>>

\* one iteration of the read stream: spawn_blocking(lock, read), then the match
\* on its result (Ok(0) and TimedOut become Message::NoOp)
Main_StreamRead(h, rd) ==
    /\ app = "main"
    /\ thread[h] = "loop"
    /\ rd.r \in {"data", "error"} => IoLeft
    /\ late_io' = IF h \in read_failed THEN late_io \cup {"read"} ELSE late_io
    /\ readlog' = IF rd.r = "data" THEN Append(readlog, rd.bytes) ELSE readlog
    /\ read_failed' = IF rd.r = "error" THEN read_failed \cup {h} ELSE read_failed
    /\ errs' = IF rd.r = "error" THEN errs + 1 ELSE errs
    /\ inbox' =
          CASE rd.r = "data" ->
                 Append(inbox, Msg("SerialDataReceived", Raw(from_utf8_lossy(rd.bytes)), h,
                                   "data", Len(readlog) + 1))
            [] rd.r = "error" ->
                 Append(inbox, Msg("SerialError", Lit("io_error"), h, "error", 0))
            [] OTHER -> inbox
    /\ UNCHANGED <<env, gmVars, ops, next_handle, wire, submitted, write_failed, delivered,
                   ctVars, termVars, tasks, writer_sender, baud_rate>>

\* Message::SerialDataReceived
Main_SerialDataReceived ==
    /\ app = "main"
    /\ inbox # <<>> /\ Head(inbox).m = "SerialDataReceived"
    /\ inbox' = Tail(inbox)
    /\ terminal_output' = Push(terminal_output, Line("received", Head(inbox).t))
    /\ delivered' = Record(delivered, Head(inbox))
    /\ UNCHANGED <<env, gmVars, ops, next_handle, ioVars, input_text, connected, port_name,
                   available_ports, received_bytes, sent_bytes, serial_port, termVars,
                   tasks, writer_sender, baud_rate>>

\* Message::SerialError
Main_SerialError ==
    /\ app = "main"
    /\ inbox # <<>> /\ Head(inbox).m = "SerialError"
    /\ inbox' = Tail(inbox)
    /\ terminal_output' = Push(terminal_output, Line("SerialError", Head(inbox).t))
    /\ serial_port' = 0
    /\ thread' = DropStream(serial_port)
    /\ delivered' = Record(delivered, Head(inbox))
    /\ UNCHANGED <<env, gmVars, ops, next_handle, ioVars, input_text, connected, port_name,
                   available_ports, received_bytes, sent_bytes, chEnds, chan, write_q,
                   tasks, writer_sender, baud_rate>>

NextMain ==
    \/ Main_ScanPorts
    \/ Main_PortsFound
    \/ \E port \in PortNames : Main_PortSelected(port)
    \/ \E text \in Inputs : Main_InputChanged(text)
    \/ Main_ConnectClicked
    \/ \E o \in OpenOutcomes : Main_OpenTask(o)
    \/ Main_PortConnected
    \/ Main_DisconnectClicked
    \/ Main_InputSubmitted
    \/ \E o \in WriteOutcomes : Main_WriteTask(o)
    \/ \E h \in Handles, rd \in ReadOutcomes : Main_StreamRead(h, rd)
    \/ Main_SerialDataReceived
    \/ Main_SerialError


\* ===================================================== com_gemini.rs
\* (ComApp: is_connected is connected, serial_port_name is port_name,
\* ports_names is available_ports; the field serial_port is never assigned.
\* No widget sends BaudRateTextChanged or ListPorts.)
\* String::from_utf8(data).ok(): None (here <<>>, with ok FALSE) unless valid
from_utf8(bytes) ==
    IF \A i \in 1..Len(bytes) : bytes[i] < 128
    THEN [ok |-> TRUE, s |-> bytes]
    ELSE [ok |-> FALSE, s |-> <<>>]

\* the tokio task of handle_serial_read, before and after its open
RxTasks == {t \in BagToSet(tasks) : t.kind \in {"rx_open", "rx_loop"}}

\* list_serial_ports() of new() completes:
\* Message::PortListReceived(ports) / Message::PortListError(e)
Gem_PortList ==
    /\ app = "com_gemini"
    /\ BagIn(PortsTask, tasks)
    /\ tasks' = Complete(tasks, PortsTask)
    /\ IF os_ports = EnumErr
       THEN /\ errors' = Append(errors, "ports_error")
            /\ UNCHANGED <<available_ports, port_name>>
       ELSE /\ available_ports' = os_ports
            /\ port_name' = IF os_ports = <<>> THEN port_name ELSE Head(os_ports)
            /\ UNCHANGED errors
    /\ UNCHANGED <<env, buffer, panicked, hex_mode, data_points, data_counter, hex_out, ops,
                   next_handle, ghostVars, input_text,
                   terminal_output, connected, received_bytes, sent_bytes, serial_port,
                   termVars, inbox, writer_sender, baud_rate>>

\* Message::PortSelected
Gem_PortSelected(port) ==
    /\ app = "com_gemini" /\ UserOp
    /\ port \in SeqToSet(available_ports)
    /\ port_name' = port
    /\ UNCHANGED <<env, gmVars, xVars, next_handle, ghostVars, input_text, terminal_output,
                   connected, available_ports, received_bytes, sent_bytes, serial_port,
                   termVars>>

\* Message::BaudRateSelected
Gem_BaudRateSelected(baud) ==
    /\ app = "com_gemini" /\ UserOp
    /\ baud_rate' = baud
    /\ UNCHANGED <<env, gmVars, next_handle, ghostVars, ctVars, termVars, tasks, inbox,
                   writer_sender>>

\* Message::InputTextChanged
Gem_InputTextChanged(text) ==
    /\ app = "com_gemini" /\ UserOp
    /\ input_text' = text
    /\ UNCHANGED <<env, gmVars, xVars, next_handle, ghostVars, terminal_output, connected,
                   port_name, available_ports, received_bytes, sent_bytes, serial_port,
                   termVars>>

\* Message::Send ("Not implemented yet")
Gem_Send ==
    /\ app = "com_gemini" /\ UserOp
    /\ input_text' = <<>>
    /\ UNCHANGED <<env, gmVars, xVars, next_handle, ghostVars, terminal_output, connected,
                   port_name, available_ports, received_bytes, sent_bytes, serial_port,
                   termVars>>

\* Message::Connect: spawns handle_serial_read and sets is_connected; the
\* receiver `rx` of the new channel is dropped when the handler returns.
\* subscription() then runs serial_data_stream, which opens the port itself.
Gem_Connect ==
    /\ app = "com_gemini" /\ UserOp
    /\ ~connected                          \* the view offers "Connect"
    /\ IF port_name # NoPort
       THEN /\ next_handle < MaxSessions
            /\ next_handle' = next_handle + 1
            /\ connected' = TRUE
            /\ tasks' = Spawn(tasks, Task("rx_open", <<>>, next_handle'))
            /\ thread' = [thread EXCEPT ![next_handle'] = "opening"]
       ELSE UNCHANGED <<next_handle, connected, tasks, thread>>
    /\ UNCHANGED <<env, gmVars, ghostVars, input_text, terminal_output, port_name,
                   available_ports, received_bytes, sent_bytes, serial_port, chEnds, chan,
                   write_q, inbox, writer_sender, baud_rate>>

\* Message::Disconnect: aborts rx_task; subscription() returns none
Gem_Disconnect ==
    /\ app = "com_gemini" /\ UserOp
    /\ connected                           \* the view offers "Disconnect"
    /\ connected' = FALSE
    /\ tasks' = tasks (-) SetToBag(RxTasks)
    /\ thread' = DropStream(next_handle)
    /\ UNCHANGED <<env, gmVars, next_handle, ghostVars, input_text, terminal_output,
                   port_name, available_ports, received_bytes, sent_bytes, serial_port,
                   chEnds, chan, write_q, inbox, writer_sender, baud_rate>>

\* handle_serial_read: the open; on Err its tx.send finds the receiver gone
Gem_RxOpen(o) ==
    /\ app = "com_gemini"
    /\ o = "ok" => LiveHandles = {}
    /\ \E t \in RxTasks :
          /\ t.kind = "rx_open"
          /\ tasks' = IF o = "ok"
                      THEN Spawn(Complete(tasks, t), Task("rx_loop", <<>>, t.to))
                      ELSE Complete(tasks, t)
    /\ UNCHANGED <<env, gmVars, ops, next_handle, ghostVars, ctVars, termVars, inbox,
                   writer_sender, baud_rate>>

\* handle_serial_read: one read of its loop; every tx.send finds the receiver
\* gone, a non-timeout error ends the task
Gem_RxRead(rd) ==
    /\ app = "com_gemini"
    /\ rd.r \in {"data", "error"}
    /\ IoLeft
    /\ \E t \in RxTasks :
          /\ t.kind = "rx_loop"
          /\ tasks' = IF rd.r = "error" THEN Complete(tasks, t) ELSE tasks
          /\ read_failed' = IF rd.r = "error" THEN read_failed \cup {t.to} ELSE read_failed
    /\ readlog' = IF rd.r = "data" THEN Append(readlog, rd.bytes) ELSE readlog
    /\ errs' = IF rd.r = "error" THEN errs + 1 ELSE errs
    /\ UNCHANGED <<env, gmVars, ops, next_handle, wire, submitted, write_failed, late_io,
                   delivered, ctVars, termVars, inbox, writer_sender, baud_rate>>

\* serial_data_stream: the open at the start of one unfold step
Gem_StreamOpen(h, o) ==
    /\ app = "com_gemini"
    /\ thread[h] = "opening"
    /\ o = "ok" => LiveHandles = {}
    /\ IF o = "ok"
       THEN /\ thread' = [thread EXCEPT ![h] = "loop"]
            /\ UNCHANGED inbox
       ELSE /\ thread' = [thread EXCEPT ![h] = "done"]
            /\ inbox' = Append(inbox,
                   Msg("ErrorOccurred", Lit("could_not_open"), h, "open_error", 0))
    /\ UNCHANGED <<env, gmVars, ops, next_handle, ghostVars, ctVars, chEnds, chan, write_q,
                   tasks, writer_sender, baud_rate>>

\* serial_data_stream: one read of the loop.  Data ends the unfold step (the
\* port is dropped and the next step opens it again); any Err ends the stream.
Gem_StreamRead(h, rd) ==
    /\ app = "com_gemini"
    /\ thread[h] = "loop"
    /\ rd.r # "zero"
    /\ IoLeft
    /\ readlog' = IF rd.r = "data" THEN Append(readlog, rd.bytes) ELSE readlog
    /\ read_failed' = IF rd.r = "error" THEN read_failed \cup {h} ELSE read_failed
    /\ errs' = IF rd.r = "data" THEN errs ELSE errs + 1
    /\ thread' = [thread EXCEPT ![h] = IF rd.r = "data" THEN "opening" ELSE "done"]
    /\ inbox' = Append(inbox,
          IF rd.r = "data"
          THEN Msg("SerialDataReceived", Txt("bytes", rd.bytes, NoPort), h, "data",
                   Len(readlog) + 1)
          ELSE Msg("ErrorOccurred", Lit("io_error"), h, rd.r, 0))
    /\ UNCHANGED <<env, gmVars, ops, next_handle, wire, submitted, write_failed, late_io,
                   delivered, ctVars, chEnds, chan, write_q, tasks, writer_sender, baud_rate>>

\* Message::SerialDataReceived(data); data is a Vec<u8>
Gem_SerialDataReceived ==
    /\ app = "com_gemini"
    /\ inbox # <<>> /\ Head(inbox).m = "SerialDataReceived"
    /\ inbox' = Tail(inbox)
    /\ buffer' = IF from_utf8(Head(inbox).t.s).ok
                 THEN buffer \o from_utf8(Head(inbox).t.s).s
                 ELSE buffer
    /\ delivered' = Record(delivered, Head(inbox))
    /\ UNCHANGED <<env, errors, panicked, hex_mode, data_points, data_counter, hex_out, ops,
                   next_handle, ioVars, ctVars, termVars, tasks,
                   writer_sender, baud_rate>>

\* Message::ErrorOccurred(e)
Gem_ErrorOccurred ==
    /\ app = "com_gemini"
    /\ inbox # <<>> /\ Head(inbox).m = "ErrorOccurred"
    /\ inbox' = Tail(inbox)
    /\ errors' = Append(errors, Head(inbox).t.tag)
    /\ delivered' = Record(delivered, Head(inbox))
    /\ UNCHANGED <<env, buffer, panicked, hex_mode, data_points, data_counter, hex_out, ops,
                   next_handle, ioVars, ctVars, termVars, tasks,
                   writer_sender, baud_rate>>

\* the length over which DataReceived drops the oldest point
MAX_DATA_POINTS == 100
\* the samples the model feeds to DataReceived: the k-th one is k % 3
MaxPlotMsgs == 102
PlotStream(k) == k % 3

\* a DataReceived that never removes a point
Gem_DataReceivedNoCap(value) ==
    /\ app = "com_gemini"
    /\ data_counter < MaxPlotMsgs
    /\ data_points' = Append(data_points, <<data_counter, value>>)
    /\ data_counter' = data_counter + 1
    /\ delivered' = Append(delivered,
           Msg("DataReceived", Txt("value", <<value>>, NoPort), 0, "sample", 0))
    /\ UNCHANGED <<env, buffer, errors, panicked, hex_mode, hex_out, ops, next_handle, ioVars,
                   ctVars,
                   termVars, xVars>>

\* Message::DataReceived(value).  No code of the binary sends this message:
\* the handler is followed on its own, in SpecPlot.
Gem_DataReceived(value) ==
    /\ app = "com_gemini"
    /\ data_counter < MaxPlotMsgs
    /\ LET pushed == Append(data_points, <<data_counter, value>>)
       IN  data_points' = IF Len(pushed) > MAX_DATA_POINTS THEN Tail(pushed) ELSE pushed
    /\ data_counter' = data_counter + 1
    /\ delivered' = Append(delivered,
           Msg("DataReceived", Txt("value", <<value>>, NoPort), 0, "sample", 0))
    /\ UNCHANGED <<env, buffer, errors, panicked, hex_mode, hex_out, ops, next_handle, ioVars,
                   ctVars,
                   termVars, xVars>>

NextGem ==
    \/ Gem_PortList
    \/ \E port \in PortNames : Gem_PortSelected(port)
    \/ \E baud \in BaudRates : Gem_BaudRateSelected(baud)
    \/ \E text \in Inputs : Gem_InputTextChanged(text)
    \/ Gem_Send
    \/ Gem_Connect
    \/ Gem_Disconnect
    \/ \E o \in OpenOutcomes : Gem_RxOpen(o)
    \/ \E rd \in GemReadOutcomes : Gem_RxRead(rd)
    \/ \E h \in Handles, o \in OpenOutcomes : Gem_StreamOpen(h, o)
    \/ \E h \in Handles, rd \in GemReadOutcomes : Gem_StreamRead(h, rd)
    \/ Gem_SerialDataReceived
    \/ Gem_ErrorOccurred

\* ====================================================== claude_com.rs
\* subscription() is called after every update(); once port_settings.connected
\* is set it reaches todo!() and the program panics.  The handlers that need a
\* connected session (DisconnectPort, SendResult, DataReceived, PortError) are
\* therefore never run.
\* Message::PortsUpdated, the result of get_available_ports()
Com_PortsUpdated ==
    /\ app = "claude_com" /\ ~panicked
    /\ BagIn(PortsTask, tasks)
    /\ tasks' = Complete(tasks, PortsTask)
    /\ available_ports' = OkPorts
    /\ terminal_output' = Push(terminal_output,
          IF OkPorts = <<>> THEN StatusLine("ports_none") ELSE StatusLine("ports_found"))
    /\ UNCHANGED <<env, gmVars, ops, next_handle, ghostVars, input_text, connected,
                   port_name, received_bytes, sent_bytes, serial_port, termVars, inbox,
                   writer_sender, baud_rate>>

\* Message::InputChanged
Com_InputChanged(text) ==
    /\ app = "claude_com" /\ ~panicked /\ UserOp
    /\ input_text' = text
    /\ UNCHANGED <<env, gmVars, xVars, next_handle, ghostVars, terminal_output, connected,
                   port_name, available_ports, received_bytes, sent_bytes, serial_port,
                   termVars>>

\* Message::PortSelected
Com_PortSelected(port) ==
    /\ app = "claude_com" /\ ~panicked /\ UserOp
    /\ port \in SeqToSet(available_ports)
    /\ port_name' = port
    /\ UNCHANGED <<env, gmVars, xVars, next_handle, ghostVars, input_text, terminal_output,
                   connected, available_ports, received_bytes, sent_bytes, serial_port,
                   termVars>>

\* Message::SendData: nothing unless the input is non-empty and connected,
\* and a connected program has panicked
Com_SendData ==
    /\ app = "claude_com" /\ ~panicked /\ UserOp
    /\ ~(input_text # <<>> /\ connected)
    /\ UNCHANGED <<env, gmVars, xVars, next_handle, ghostVars, ctVars, termVars>>

\* Message::ConnectPort, then the subscription() call that follows update()
Com_ConnectPort(o) ==
    /\ app = "claude_com" /\ ~panicked /\ UserOp
    /\ ~connected                          \* the view offers "Подключиться"
    /\ CanOpen(o)
    /\ IF port_name # NoPort
       THEN IF o = "ok"
            THEN /\ next_handle' = next_handle + 1
                 /\ connected' = TRUE
                 /\ serial_port' = next_handle'
                 /\ terminal_output' = Push(terminal_output,
                                            PortLine("connected_to", port_name))
                 /\ tasks' = Spawn(tasks, Task("read", <<>>, next_handle'))
                 /\ panicked' = TRUE
            ELSE /\ terminal_output' = Push(terminal_output,
                                            PortLine("connect_error", port_name))
                 /\ UNCHANGED <<next_handle, connected, serial_port, tasks, panicked>>
       ELSE UNCHANGED <<next_handle, connected, serial_port, terminal_output, tasks,
                        panicked>>
    /\ UNCHANGED <<env, buffer, errors, hex_mode, data_points, data_counter, hex_out,
                   ghostVars, input_text, port_name,
                   available_ports,
                   received_bytes, sent_bytes, termVars, inbox, writer_sender, baud_rate>>

NextCom ==
    \/ Com_PortsUpdated
    \/ \E text \in Inputs : Com_InputChanged(text)
    \/ \E port \in PortNames : Com_PortSelected(port)
    \/ Com_SendData
    \/ \E o \in OpenOutcomes : Com_ConnectPort(o)


\* ======================================================= main copy.rs
\* (ComApp: logs is terminal_output, port is serial_port, manual_input is
\* input_text; an empty port_name is NoPort.  The body of view() is elided in
\* the source, so every message of a widget is taken as offered in every
\* state.  The receiver of the channel made in OpenPort is dropped when the
\* handler returns, so no Message::Receive is ever delivered.)
\* Message::PortNameChanged
Copy_PortNameChanged(name) ==
    /\ app = "main_copy" /\ UserOp
    /\ port_name' = name
    /\ UNCHANGED <<env, gmVars, xVars, next_handle, ghostVars, input_text, terminal_output,
                   connected, available_ports, received_bytes, sent_bytes, serial_port,
                   termVars>>

\* Message::ManualInputChanged
Copy_ManualInputChanged(text) ==
    /\ app = "main_copy" /\ UserOp
    /\ input_text' = text
    /\ UNCHANGED <<env, gmVars, xVars, next_handle, ghostVars, terminal_output, connected,
                   port_name, available_ports, received_bytes, sent_bytes, serial_port,
                   termVars>>

\* Message::OpenPort: opens and spawns the reader thread, or, with a port
\* stored, drops the stored reference (the thread keeps its own)
Copy_OpenPort(o) ==
    /\ app = "main_copy" /\ UserOp
    /\ IF serial_port = 0
       THEN /\ CanOpen(o)
            /\ port_name = NoPort => o = "error"
            /\ IF o = "ok"
               THEN /\ next_handle' = next_handle + 1
                    /\ serial_port' = next_handle'
                    /\ thread' = [thread EXCEPT ![next_handle'] = "yield"]
                    /\ terminal_output' = Push(terminal_output,
                                               PortLine("opened", port_name))
               ELSE /\ terminal_output' = Push(terminal_output, StatusLine("open_error"))
                    /\ UNCHANGED <<next_handle, serial_port, thread>>
       ELSE /\ o = "ok"
            /\ serial_port' = 0
            /\ terminal_output' = Push(terminal_output, PortLine("closed", port_name))
            /\ UNCHANGED <<next_handle, thread>>
    /\ UNCHANGED <<env, gmVars, xVars, ghostVars, input_text, connected, port_name,
                   available_ports, received_bytes, sent_bytes, chEnds, chan, write_q>>

\* Message::SendManual: locks the port and writes in update(); the result of
\* write_all is dropped
Copy_SendManual(o) ==
    /\ app = "main_copy" /\ UserOp
    /\ IF serial_port # 0
       THEN /\ thread[serial_port] # "loop"     \* port.lock() returns
            /\ o = "error" => IoLeft
            /\ submitted' = Append(submitted, as_bytes(input_text))
            /\ late_io' = IF serial_port \in write_failed
                          THEN late_io \cup {"write"} ELSE late_io
            /\ wire' = IF o = "ok" THEN Append(wire, as_bytes(input_text)) ELSE wire
            /\ write_failed' = IF o = "ok" THEN write_failed
                               ELSE write_failed \cup {serial_port}
            /\ errs' = IF o = "ok" THEN errs ELSE errs + 1
            /\ terminal_output' = Push(terminal_output, Line("sent_echo", Raw(input_text)))
            /\ input_text' = <<>>
       ELSE /\ o = "ok"
            /\ terminal_output' = Push(terminal_output, StatusLine("not_connected"))
            /\ UNCHANGED <<submitted, late_io, wire, write_failed, errs, input_text>>
    /\ UNCHANGED <<env, gmVars, xVars, next_handle, readlog, read_failed, delivered,
                   connected, port_name, available_ports, received_bytes, sent_bytes,
                   serial_port, termVars>>

\* the reader thread: read_port.lock().unwrap() at the top of its loop
Copy_ThreadLock(h) ==
    /\ app = "main_copy"
    /\ thread[h] = "yield"
    /\ thread' = [thread EXCEPT ![h] = "loop"]
    /\ UNCHANGED <<env, gmVars, xVars, ops, next_handle, ghostVars, ctVars, chEnds, chan,
                   write_q>>

\* the reader thread: port.read returns (after at most the 1000 ms timeout);
\* the text goes to a channel nobody receives from, every other outcome is
\* followed by a sleep; the guard is dropped and the loop goes on
Copy_ThreadRead(h, rd) ==
    /\ app = "main_copy"
    /\ thread[h] = "loop"
    /\ rd.r \in {"data", "error"} => IoLeft
    /\ late_io' = IF h \in read_failed THEN late_io \cup {"read"} ELSE late_io
    /\ readlog' = IF rd.r = "data" THEN Append(readlog, rd.bytes) ELSE readlog
    /\ read_failed' = IF rd.r = "error" THEN read_failed \cup {h} ELSE read_failed
    /\ errs' = IF rd.r = "error" THEN errs + 1 ELSE errs
    /\ thread' = [thread EXCEPT ![h] = "yield"]
    /\ UNCHANGED <<env, gmVars, xVars, ops, next_handle, wire, submitted, write_failed,
                   delivered, ctVars, chEnds, chan, write_q>>

NextCopy ==
    \/ \E name \in PortNames : Copy_PortNameChanged(name)
    \/ \E text \in Inputs : Copy_ManualInputChanged(text)
    \/ \E o \in OpenOutcomes : Copy_OpenPort(o)
    \/ \E o \in WriteOutcomes : Copy_SendManual(o)
    \/ \E h \in Handles : Copy_ThreadLock(h)
    \/ \E h \in Handles, rd \in ReadOutcomes : Copy_ThreadRead(h, rd)

Next ==
    \/ NextMain
    \/ NextCopy
    \/ NextCom
    \/ NextGem
    \/ NextTerm
    \/ NextCom2
    \/ NextCom4
    \/ NextGpt

Spec == Init /\ [][Next]_vars

\* ================================================== checked properties
\* the events update() handled that report a failed I/O call
FailCauses == {"error", "write_error"}

IsPrefix(s, u) == Len(s) <= Len(u) /\ SubSeq(u, 1, Len(s)) = s

\* a send that update() accepted has not yet reached write_all
WritesPending ==
    \/ \E t \in BagToSet(tasks) : t.kind \in {"send", "write"}
    \/ \E h \in Handles : write_q[h] # <<>>

\* an event a background context emitted has not yet been handled by update()
EventsPending == inbox # <<>> \/ \E h \in Handles : chan[h] # <<>>

\* the positions in readlog of the reads whose payload update() handled, in
\* handling order
RECURSIVE HandledReads(_)
HandledReads(d) ==
    IF d = <<>> THEN <<>>
    ELSE (IF Head(d).cause = "data" /\ Head(d).t.tag = "raw" THEN <<Head(d).rd>> ELSE <<>>)
         \o HandledReads(Tail(d))

\* C1: as long as no write has failed, the device has received exactly the
\* byte sequences of the sends accepted while connected, whole and in issue
\* order; once no send is pending it has received all of them.
C1_SendsReachDeviceInOrder ==
    write_failed = {} =>
        /\ IsPrefix(wire, submitted)
        /\ ~WritesPending => wire = submitted

\* C2: the received-data events update() has handled carry the chunks the
\* reads returned, each once and in read order; once no event is pending they
\* carry every chunk.
C2_ReceivedDataReconstructsStream ==
    /\ HandledReads(delivered) = [i \in 1..Len(HandledReads(delivered)) |-> i]
    /\ ~EventsPending => Len(HandledReads(delivered)) = Len(readlog)

\* C3: a read that times out produces no event at all: no message caused by a
\* timeout is ever queued for, or handled by, update().
C3_TimeoutNeverSurfaced ==
    /\ \A h \in Handles : \A i \in DOMAIN chan[h] : chan[h][i].cause # "timeout"
    /\ \A i \in DOMAIN inbox : inbox[i].cause # "timeout"
    /\ \A i \in DOMAIN delivered : delivered[i].cause # "timeout"

\* C4: once a read on a session has failed with an error other than a timeout,
\* the program makes no further read attempt on that session (the loop stops,
\* there is no automatic retry).
C4_NoReadAfterReadError == "read" \notin late_io

\* C5: once update() has handled a non-timeout read or write failure of a
\* session, that session is torn down: its handle is no longer the stored one.
C5_FailureTearsSessionDown ==
    \A i \in DOMAIN delivered :
        delivered[i].cause \in FailCauses => serial_port # delivered[i].h

\* C6: a failed write ends the session: after update() has handled the failure
\* the handle is no longer stored, and no further write is attempted on it.
C6_WriteFailureStopsWriter ==
    /\ "write" \notin late_io
    /\ \A i \in DOMAIN delivered :
           delivered[i].cause = "write_error" => serial_port # delivered[i].h

\* no session is connected, whichever field the binary keeps for it
Unconnected == ~connected /\ serial_port = 0

\* update() handles a send request
SendIssued ==
    \/ Main_InputSubmitted
    \/ Gpt_SendInput
    \/ Gem_Send
    \/ Com_SendData
    \/ Com4_SendData
    \/ \E o \in WriteOutcomes : Com2_SendData(o) \/ Term_SendData(o)

\* update() handles a connect request
ConnectIssued ==
    \/ Main_ConnectClicked
    \/ Gpt_ConnectToggle
    \/ Gem_Connect
    \/ \E o \in OpenOutcomes : Com_ConnectPort(o) \/ Com2_ConnectPort(o)
                               \/ Com4_ConnectPort(o) \/ Term_ConnectPort(o)

\* the "disconnected" lines on display
DisconnectedEvents ==
    BagCardinality([l \in {x \in BagToSet(terminal_output) :
                             x.k \in {"disconnected", "disconnected_from"}}
                      |-> terminal_output[l]])

\* C7: a send handled while no session is connected mutates nothing: the
\* displayed text, the input buffer, the byte counters and the connection state
\* stay as they were, and the device receives no bytes.
C7_UnconnectedSendMutatesNothing ==
    [][(Unconnected /\ SendIssued) =>
          UNCHANGED <<terminal_output, buffer, input_text, received_bytes, sent_bytes,
                      connected, serial_port, wire, tasks>>]_vars

\* C8: a "disconnected" event is published only by a step that starts with a
\* connected session, and one at a time: one disconnect publishes exactly one
\* event, and nothing done while unconnected publishes another.
C8_DisconnectPublishesOnce ==
    [][DisconnectedEvents' > DisconnectedEvents =>
          /\ DisconnectedEvents' = DisconnectedEvents + 1
          /\ ~Unconnected]_vars

\* C9: when update() handles the failure of an open, it leaves the program
\* unconnected: the connected flag is false and no handle is stored.
C9_OpenFailureLeavesUnconnected ==
    [][(/\ Len(delivered') = Len(delivered) + 1
        /\ delivered'[Len(delivered')].cause = "open_error") => Unconnected']_vars

\* C10: a connect request made with no port name, or with a baud rate of zero,
\* fails with an error the program publishes and leaves the program unconnected.
C10_BadConnectFailsWithError ==
    [][(Unconnected /\ ConnectIssued /\ (port_name = NoPort \/ baud_rate = 0)) =>
          /\ Unconnected'
          /\ terminal_output' # terminal_output \/ errors' # errors]_vars

\* C11: a failed port enumeration is not reported: no error line is logged, no
\* error is recorded, and the port list the UI holds is the empty one, as
\* after an enumeration that found no port.
C11_EnumerationFailsSoft ==
    /\ CopiesIn(StatusLine("ports_error"), terminal_output) = 0
    /\ "ports_error" \notin SeqToSet(errors)
    /\ os_ports = EnumErr => available_ports = <<>>

\* the session the program currently treats as connected (0: none)
CurrentSession ==
    CASE app = "com_term" -> IF connected THEN write_tx ELSE 0
      [] app = "com_gemini" -> IF connected THEN next_handle ELSE 0
      [] OTHER -> serial_port

\* the background context of session h is running
Alive(h) == thread[h] \in {"start", "loop", "yield", "opening"}

\* the background context of session h completes one iteration of its loop
LoopIteration(h) ==
    \/ \E ow \in WriteOutcomes, rd \in ReadOutcomes :
          Term_ThreadLoop(h, ow, rd) \/ Com4_StreamWrite(h, rd, ow)
    \/ \E rd \in ReadOutcomes :
          \/ Copy_ThreadRead(h, rd) \/ Main_StreamRead(h, rd)
          \/ Gpt_StreamRead(h, rd) \/ Com4_StreamRead(h, rd)
    \/ \E rd \in GemReadOutcomes : Gem_StreamRead(h, rd)

\* C12: the loop of a closed session stops: an iteration its background
\* context completes after the session was disconnected or destroyed is its
\* last one, so from then on nothing of that session touches the handle.
C12_ClosedSessionLoopStops ==
    [][\A h \in Handles :
          (h # CurrentSession /\ LoopIteration(h)) => ~Alive(h)']_vars

\* C13: the handle of a closed session is released: whichever background
\* context still owns it has been told to stop (com_term's port thread stops
\* when its write channel is disconnected; the reader thread of main copy.rs
\* has nothing that stops it), so the port can be opened again.
C13_ClosedHandleReleased ==
    \A h \in Handles :
        (h # CurrentSession /\ Alive(h)) => (app = "com_term" /\ write_tx # h)

\* C14: update() handles a received-data or error event of a session only
\* while that session is the connected one: after the disconnect no event of
\* the closed session is appended to the log or counted.
C14_NoEventAfterDisconnect ==
    [][Len(delivered') = Len(delivered) + 1 =>
          LET e == delivered'[Len(delivered')]
          IN  e.cause \in {"data", "timeout"} \cup FailCauses => e.h = CurrentSession]_vars

\* C15: the configuration of an open session does not change: as long as the
\* same session stays connected, the port name and the baud rate the program
\* holds and reports for it are the ones it was opened with.
C15_OpenSessionConfigImmutable ==
    [][(CurrentSession # 0 /\ CurrentSession' = CurrentSession) =>
          UNCHANGED <<port_name, baud_rate>>]_vars

\* C16: nobody holds the lock on the handle across the wait for incoming
\* data, so a send submitted while connected can always be written, whether
\* or not the device produces input: no write is waiting for a lock that the
\* read loop holds while its read is pending.
C16_WriteNotBehindPendingRead ==
    \A t \in BagToSet(tasks) :
        (app = "com_gpt" /\ t.kind = "write") => thread[t.to] # "loop"

C18_OneOpenPerPort ==
    /\ Cardinality(LiveHandles) <= 1
    /\ LET attempts ==
               {t \in BagToSet(tasks) : t.kind \in {"open", "rx_open"}}
           opening == {h \in Handles : thread[h] = "opening"}
       IN  /\ \A t \in attempts : CopiesIn(t, tasks) = 1
           /\ Cardinality(attempts) + Cardinality(opening) <= 1

\* C19: an open session has one background execution context: for the
\* current session at most one read loop or pending read task is active.
C19_OneReaderPerSession ==
    LET h == CurrentSession
        readers == {t \in BagToSet(tasks) :
                       t.to = h /\ t.kind \in {"read", "rx_open", "rx_loop"}}
    IN  h # 0 =>
           /\ \A t \in readers : CopiesIn(t, tasks) = 1
           /\ Cardinality(readers) + (IF Alive(h) THEN 1 ELSE 0) <= 1

\* C20: the UI event loop performs no serial I/O: a step of update(), for a
\* widget message or for the timer's Tick, neither writes to the handle nor
\* reads from it; reads and writes are steps of a background context.
C20_UpdateDoesNoSerialIo ==
    [][(ops' # ops \/ \E rd \in ReadOutcomes : Com2_Tick(rd))
          => UNCHANGED <<wire, readlog, write_failed, read_failed>>]_vars

\* C21: one read call yields at most one received-data event: no two of the
\* events update() handled were caused by the same read.
C21_OneEventPerRead ==
    \A k \in 1..Len(readlog) :
        Cardinality({i \in DOMAIN delivered :
                        delivered[i].cause = "data" /\ delivered[i].rd = k}) <= 1

\* C22: stopping a session is cooperative: a read task that is inside its
\* read loop ends only by a step of its own (the loop observes a signal or
\* an error and returns); no other step removes it.
C22_StopIsCooperative ==
    [][\A t \in BagToSet(tasks) :
          (t.kind = "rx_loop" /\ ~BagIn(t, tasks'))
          => \E rd \in GemReadOutcomes : Gem_RxRead(rd)]_vars

\* C23: the byte counters track the traffic of the session: received_bytes
\* never exceeds the number of bytes the read calls returned, and sent_bytes
\* never exceeds the number of bytes written to the device.
C23_CountersTrackTraffic ==
    /\ received_bytes <= Len(Flatten(readlog))
    /\ sent_bytes <= Len(Flatten(wire))

\* C24: in the main terminal the result of a failed open never affects an
\* established session: handling PortConnected(Err) while a port is stored
\* leaves the stored port and its read subscription as they were.
C24_FailedOpenKeepsSession ==
    [][(Main_PortConnected /\ Head(inbox).h = 0 /\ serial_port # 0)
          => UNCHANGED <<serial_port, thread>>]_vars

\* C25: in the ComTerminal prototypes port_settings.connected is true
\* exactly when a serial handle is stored in the application state.
C25_ConnectedIffHandleStored ==
    app \in {"com_term", "claude_com", "claude_com2", "claude_com4"}
    => (connected <=> serial_port # 0)

\* C26: in com_gpt a hex-mode send whose input fails hex parsing writes no
\* bytes and leaves the session connected: after the resulting error message
\* is handled port_handle is what it was.
C26_BadHexKeepsSession ==
    [][(Gpt_SerialError /\ Head(inbox).cause = "none") => serial_port' = serial_port]_vars

\* The binaries that refresh their port list, on a machine whose port list
\* changes while they run.
InitPorts == Init /\ app \in {"main", "com_gpt", "claude_com4"}
NextPorts ==
    \/ \E ports \in EnumResults : Os_PortsChange(ports)
    \/ NextMain
    \/ NextGpt
    \/ NextCom4
SpecPorts == InitPorts /\ [][NextPorts]_vars

\* C27: handling a refreshed port list keeps the selection when the new list
\* still contains it, and otherwise moves it into the new list: after the
\* handler the selected port is none or a member of the current list.
C27_RefreshKeepsValidSelection ==
    [][(Com4_PortsUpdated \/ Gpt_Ports \/ Main_PortsFound) =>
          /\ port_name' = NoPort \/ port_name' \in SeqToSet(available_ports')
          /\ port_name \in SeqToSet(available_ports') => port_name' = port_name]_vars

\* claude_com4 with a user who does nothing but refresh the port list
InitLog ==
    /\ app = "claude_com4"
    /\ budget = MaxLogOps
    /\ buffer = <<>> /\ errors = <<>> /\ panicked = FALSE /\ hex_mode = FALSE
    /\ data_points = <<>> /\ data_counter = 0 /\ hex_out = NotCalled
    /\ os_ports \in EnumResults
    /\ InitHistory
    /\ InitTerm
    /\ writer_sender = 0 /\ inbox = <<>>
    /\ baud_rate = DefaultBaud(app)
    /\ InitCom4 /\ tasks = SetToBag({PortsTask})
NextLog ==
    \/ Com4_RefreshPorts
    \/ Com4_PortsUpdated
SpecLog == InitLog /\ [][NextLog]_vars

\* C28: in claude_com4 the display log is a bounded queue: terminal_output
\* never holds more than 100 lines.
C28_LogBounded ==
    app = "claude_com4" => BagCardinality(terminal_output) <= LOG_CAP

\* com_gemini receiving nothing but DataReceived(value) messages
InitPlot == Init /\ app = "com_gemini"
NextPlot == Gem_DataReceived(PlotStream(data_counter))
SpecPlot == InitPlot /\ [][NextPlot]_vars

\* C29: in com_gemini the plot buffer is bounded and ordered: data_points
\* holds at most MAX_DATA_POINTS points, they are the values of the most
\* recent DataReceived messages in arrival order, and their x coordinates
\* are the arrival numbers, so they grow strictly.
C29_PlotBufferBounded ==
    app = "com_gemini" =>
        LET n == Len(data_points) IN
        /\ n <= MAX_DATA_POINTS
        /\ n = IF data_counter < MAX_DATA_POINTS THEN data_counter ELSE MAX_DATA_POINTS
        /\ data_counter = Len(delivered)
        /\ \A i \in 1..n :
              data_points[i] = <<data_counter - n + i - 1,
                                 delivered[Len(delivered) - n + i].t.s[1]>>
        /\ \A i \in 1..(n - 1) : data_points[i][1] < data_points[i + 1][1]

\* the buffer is full and has dropped its oldest point
C29_OldestPointDropped ==
    /\ app = "com_gemini"
    /\ data_counter > MAX_DATA_POINTS
    /\ Len(data_points) = MAX_DATA_POINTS
    /\ data_points[1][1] = data_counter - MAX_DATA_POINTS

\* hex_utils on its own: com_gpt with some text in the input field, on which
\* hex_to_bytes is called
InitHex ==
    /\ app = "com_gpt"
    /\ budget = MaxOps
    /\ buffer = <<>> /\ errors = <<>> /\ panicked = FALSE /\ hex_mode = TRUE
    /\ data_points = <<>> /\ data_counter = 0
    /\ hex_out = NotCalled
    /\ os_ports \in EnumResults
    /\ InitHistory
    /\ InitTerm
    /\ writer_sender = 0 /\ inbox = <<>> /\ tasks = EmptyBag
    /\ baud_rate = DefaultBaud(app)
    /\ input_text \in HexInputs
    /\ connected = FALSE /\ port_name = NoPort
    /\ received_bytes = 0 /\ sent_bytes = 0 /\ serial_port = 0
    /\ available_ports = <<>>
    /\ terminal_output = EmptyBag

\* hex_utils::hex_to_bytes(&input_value)
Hex_Parse ==
    /\ hex_out = NotCalled
    /\ hex_out' = hex_to_bytes(input_text)
    /\ UNCHANGED <<env, buffer, errors, panicked, hex_mode, data_points, data_counter, ops,
                   next_handle, ghostVars, ctVars, termVars, xVars>>

SpecHex == InitHex /\ [][Hex_Parse]_vars

\* C30: the hex helpers round-trip, hex_to_bytes(bytes_to_hex(b)) = Ok(b),
\* and hex_to_bytes returns an error for every input whose length without
\* whitespace is odd or that has a pair that is not two hexadecimal digits.
C30_HexRoundTrip ==
    hex_out # NotCalled =>
        LET cleaned == SelectSeq(input_text, LAMBDA c : c \notin {9, 10, 11, 12, 13, 32})
            digit(c) == c \in (48..57) \cup (65..70) \cup (97..102)
        IN  /\ \A n \in 0..MaxHexBytes : \A b \in [1..n -> {0, 10, 171, 255}] :
                  input_text = bytes_to_hex(b) => hex_out = [r |-> "ok", bytes |-> b]
            /\ (\/ Len(cleaned) % 2 = 1
                \/ \E i \in 1..Len(cleaned) : ~digit(cleaned[i]))
               => hex_out = [r |-> "err", bytes |-> <<>>]

====
